---- MODULE Spec2Model ----
(***************************************************************************)
(* CactUScript: the tree-walking evaluator (interpreter.py) and the        *)
(* bytecode compiler and stack machine (vm.py), modelled over a bounded    *)
(* family of syntax trees.                                                 *)
(*                                                                         *)
(* Runtime values are the Python objects the two backends compute with.    *)
(* A value is a record [t, v]: t is the Python type, v the payload.        *)
(* Floats are modelled as exact rationals <<n, d>> in lowest terms.        *)
(* Environments are heap objects: `envs` is the heap, indexed from 1,      *)
(* index 1 being Interpreter.global_env; a parent pointer of 0 is None.    *)
(***************************************************************************)
EXTENDS Integers, Sequences, FiniteSets, TLC

VARIABLES
    envs,          \* Interpreter: heap of Environment objects
    current_env,   \* Interpreter.current_env (index into envs)
    events,        \* Interpreter.events
    out,           \* what the last statement printed (evaluator)
    result,        \* value returned by the last Interpreter.run
    failure,       \* exception that ended the last Interpreter.run, or NoErr
    last,          \* the statement the last Interpreter.run executed
    trace,         \* ghost: what the handlers of the last run did, in order
    program,       \* VM side: the Program handed to Compiler.compile
    code,          \* VM side: instructions passed to VirtualMachine.run
    constants,     \* VirtualMachine.constants
    stack,         \* VirtualMachine.stack
    frames,        \* VirtualMachine.frames
    globals,       \* VirtualMachine.globals
    pc,            \* VirtualMachine.pc
    vmstate,       \* "idle" | "running" | "halted" | "failed"
    vmfailure,     \* exception that ended the last VirtualMachine.run
    vmout,         \* what the current VirtualMachine.run printed
    nruns,         \* number of VirtualMachine.run calls on this machine
    source,        \* front end: the text last handed to Lexer, or the line last read
    tokens,        \* front end: the list Lexer.tokenize returned, <<>> if it raised
    ast,           \* front end: the Program Parser.parse returned, or Absent
    diagnostic,    \* front end: what the except clauses reported, or NoDiag
    exit_code,     \* run_file: the status of sys.exit, 0 if it returned
    use_vm,        \* REPL.use_vm / run_file's use_vm
    multiline_buffer, \* REPL.multiline_buffer
    brace_count,   \* REPL.brace_count
    session,       \* the process (REPL.run or main): "running" | "ended"
    bound          \* ghost: <<mode, name>> bound by an input that raised nothing

ivars == <<envs, current_env, events, out, result, failure, last, trace>>
vvars == <<program, code, constants, stack, frames, globals, pc, vmstate,
           vmfailure, vmout, nruns>>
fvars == <<source, tokens, ast, diagnostic, exit_code, use_vm, multiline_buffer,
           brace_count, session, bound>>
vars == <<envs, current_env, events, out, result, failure, last, trace,
          program, code, constants, stack, frames, globals, pc, vmstate,
          vmfailure, vmout, nruns,
          source, tokens, ast, diagnostic, exit_code, use_vm, multiline_buffer,
          brace_count, session, bound>>

----------------------------------------------------------------------------
(* Bounds of the model *)

\* largest magnitude of a number kept in a binding
MaxInt == 2
\* largest number of live Environment objects
MaxEnvs == 4
\* iterations + call depth one statement may use
Fuel == 6
\* deepest operand stack the machine is followed to
MaxStack == 3
\* VirtualMachine.run calls on one machine
MaxRuns == 2

----------------------------------------------------------------------------
(* Runtime values *)

None == [t |-> "none", v |-> 0]
IntV(n) == [t |-> "int", v |-> n]
BoolV(b) == [t |-> "bool", v |-> b]
FloatV(q) == [t |-> "float", v |-> q]
StrV(s) == [t |-> "str", v |-> s]
ListV(s) == [t |-> "list", v |-> s]
\* a dict with string keys: the function from its keys to their values
MapV(f) == [t |-> "map", v |-> f]
\* a host callable bound by _setup_builtins
HostV(n) == [t |-> "host", v |-> n]
\* CactUScriptFunction(declaration, closure)
FnV(decl, closure) == [t |-> "fn", v |-> [declaration |-> decl, closure |-> closure]]
\* CompiledFunction(name, params, code, num_locals)
CompiledFunction(name, params, fcode, num_locals) ==
    [t |-> "cfn", v |-> [name |-> name, params |-> params, code |-> fcode,
                         num_locals |-> num_locals]]
\* the dict execute_EventDeclaration binds to an event's name
EventV(name, fields) ==
    [t |-> "dict", v |-> [type |-> "event", name |-> name, fields |-> fields]]

\* the dict execute_ContractDeclaration binds to a contract's name; env is
\* the Environment its body ran in
ContractV(name, env) ==
    [t |-> "dict", v |-> [type |-> "contract", name |-> name, env |-> env]]

\* a bound method of a Python object, as getattr returns it
MethodV(n) == [t |-> "method", v |-> n]

\* Exceptions: kind is the Python class, what/name the parts of the message
Err(kind, what, name) == [kind |-> kind, what |-> what, name |-> name]
NoErr == Err("", "", "")
\* what a run reports: heading is the first word(s) the except clause prints,
\* e the exception, line and column its position (0: it carries none)
Diag(heading, e, line, column) ==
    [heading |-> heading, e |-> e, line |-> line, column |-> column]
NoDiag == Diag("", NoErr, 0, 0)

Ok(v) == [ok |-> TRUE, v |-> v, e |-> NoErr]
Fail(e) == [ok |-> FALSE, v |-> None, e |-> e]

EmptyMap == [x \in {} |-> None]
Put(f, k, v) == [x \in (DOMAIN f) \cup {k} |-> IF x = k THEN v ELSE f[x]]

----------------------------------------------------------------------------
(* Python arithmetic on the values above *)

Abs(n) == IF n < 0 THEN -n ELSE n

RECURSIVE Gcd(_, _)
Gcd(a, b) == IF b = 0 THEN a ELSE Gcd(b, a % b)

\* rational n/d (d # 0) in lowest terms with positive denominator
Norm(n, d) ==
    LET g == Gcd(Abs(n), Abs(d))
        s == IF d < 0 THEN -1 ELSE 1
    IN  <<(s * n) \div g, (s * d) \div g>>

\* floor(p / q), q # 0
FloorDiv(p, q) == IF q > 0 THEN p \div q ELSE (-p) \div (-q)

IsNum(a) == a.t \in {"int", "bool", "float"}
IsIntLike(a) == a.t \in {"int", "bool"}
NumOf(a) ==
    IF a.t = "int" THEN <<a.v, 1>>
    ELSE IF a.t = "bool" THEN <<(IF a.v THEN 1 ELSE 0), 1>>
    ELSE a.v
MkNum(isFloat, q) == IF isFloat THEN FloatV(q) ELSE IntV(q[1])

QAdd(p, q) == Norm(p[1] * q[2] + q[1] * p[2], p[2] * q[2])
QSub(p, q) == Norm(p[1] * q[2] - q[1] * p[2], p[2] * q[2])
QMul(p, q) == Norm(p[1] * q[1], p[2] * q[2])
QDiv(p, q) == Norm(p[1] * q[2], p[2] * q[1])
QLt(p, q) == p[1] * q[2] < q[1] * p[2]
\* Python's %: the result has the sign of the divisor
QMod(p, q) ==
    LET k == FloorDiv(p[1] * q[2], p[2] * q[1])
    IN  QSub(p, QMul(<<k, 1>>, q))

RECURSIVE QPow(_, _)
QPow(p, n) == IF n = 0 THEN <<1, 1>> ELSE QMul(p, QPow(p, n - 1))

TypeError(op) == Fail(Err("TypeError", op, ""))
ZeroDivisionError == Fail(Err("ZeroDivisionError", "division by zero", ""))

\* a + b
py_add(a, b) ==
    IF IsNum(a) /\ IsNum(b)
    THEN Ok(MkNum(a.t = "float" \/ b.t = "float", QAdd(NumOf(a), NumOf(b))))
    ELSE IF a.t = "str" /\ b.t = "str" THEN Ok(StrV(a.v \o b.v))
    ELSE IF a.t = "list" /\ b.t = "list" THEN Ok(ListV(a.v \o b.v))
    ELSE TypeError("+")

\* a - b
py_sub(a, b) ==
    IF IsNum(a) /\ IsNum(b)
    THEN Ok(MkNum(a.t = "float" \/ b.t = "float", QSub(NumOf(a), NumOf(b))))
    ELSE TypeError("-")

\* a * b (numbers; sequence repetition is left out of the model's trees)
py_mul(a, b) ==
    IF IsNum(a) /\ IsNum(b)
    THEN Ok(MkNum(a.t = "float" \/ b.t = "float", QMul(NumOf(a), NumOf(b))))
    ELSE TypeError("*")

\* a / b: true division, always a float
py_truediv(a, b) ==
    IF IsNum(a) /\ IsNum(b)
    THEN IF NumOf(b)[1] = 0 THEN ZeroDivisionError
         ELSE Ok(FloatV(QDiv(NumOf(a), NumOf(b))))
    ELSE TypeError("/")

\* a % b
py_mod(a, b) ==
    IF IsNum(a) /\ IsNum(b)
    THEN IF NumOf(b)[1] = 0 THEN ZeroDivisionError
         ELSE Ok(MkNum(a.t = "float" \/ b.t = "float", QMod(NumOf(a), NumOf(b))))
    ELSE TypeError("%")

\* a ** b for an integer exponent
py_pow(a, b) ==
    IF IsNum(a) /\ IsIntLike(b)
    THEN LET n == NumOf(b)[1]
         IN  IF n >= 0
             THEN Ok(MkNum(a.t = "float", QPow(NumOf(a), n)))
             ELSE IF NumOf(a)[1] = 0 THEN ZeroDivisionError
             ELSE Ok(FloatV(QDiv(<<1, 1>>, QPow(NumOf(a), -n))))
    ELSE TypeError("**")

\* -a
py_neg(a) ==
    IF IsNum(a) THEN Ok(MkNum(a.t = "float", QSub(<<0, 1>>, NumOf(a))))
    ELSE TypeError("neg")

\* a == b: numbers compare by value across int, bool and float
RECURSIVE py_eq(_, _)
py_eq(a, b) ==
    IF IsNum(a) /\ IsNum(b) THEN NumOf(a) = NumOf(b)
    ELSE IF a.t # b.t THEN FALSE
    ELSE IF a.t = "list"
         THEN /\ Len(a.v) = Len(b.v)
              /\ \A i \in 1..Len(a.v) : py_eq(a.v[i], b.v[i])
    ELSE a = b

\* a < b
py_lt(a, b) ==
    IF IsNum(a) /\ IsNum(b) THEN Ok(BoolV(QLt(NumOf(a), NumOf(b))))
    ELSE TypeError("<")

\* a <= b
py_le(a, b) ==
    IF IsNum(a) /\ IsNum(b) THEN Ok(BoolV(~QLt(NumOf(b), NumOf(a))))
    ELSE TypeError("<=")

\* bool(a): Python's truth value, used by `not` and the conditional jumps
py_bool(a) ==
    IF a.t = "none" THEN FALSE
    ELSE IF a.t = "bool" THEN a.v
    ELSE IF IsNum(a) THEN NumOf(a)[1] # 0
    ELSE IF a.t = "str" THEN a.v # ""
    ELSE IF a.t = "list" THEN Len(a.v) > 0
    ELSE TRUE

----------------------------------------------------------------------------
(* Syntax tree (ast_nodes.py).  An absent Optional child is Absent. *)

Absent == [k |-> "None"]
IntegerLiteral(n) == [k |-> "IntegerLiteral", value |-> n]
BooleanLiteral(b) == [k |-> "BooleanLiteral", value |-> b]
StringLiteral(s) == [k |-> "StringLiteral", value |-> s]
NullLiteral == [k |-> "NullLiteral"]
ListLiteral(es) == [k |-> "ListLiteral", elements |-> es]
\* pairs is a sequence of <<key, value>>
MapLiteral(pairs) == [k |-> "MapLiteral", pairs |-> pairs]
MemberAccess(obj, member) == [k |-> "MemberAccess", object |-> obj, member |-> member]
Identifier(n) == [k |-> "Identifier", name |-> n]
BinaryOp(l, op, r) == [k |-> "BinaryOp", left |-> l, operator |-> op, right |-> r]
UnaryOp(op, e) == [k |-> "UnaryOp", operator |-> op, operand |-> e]
ComparisonOp(l, op, r) == [k |-> "ComparisonOp", left |-> l, operator |-> op, right |-> r]
LogicalOp(l, op, r) == [k |-> "LogicalOp", left |-> l, operator |-> op, right |-> r]
FunctionCall(f, as) == [k |-> "FunctionCall", function |-> f, arguments |-> as]

ExpressionStatement(e) == [k |-> "ExpressionStatement", expression |-> e]
VariableDeclaration(n, e, c) ==
    [k |-> "VariableDeclaration", name |-> n, value |-> e, is_const |-> c]
Assignment(t, op, e) == [k |-> "Assignment", target |-> t, operator |-> op, value |-> e]
Block(ss) == [k |-> "Block", statements |-> ss]
IfStatement(c, th, el, els) ==
    [k |-> "IfStatement", condition |-> c, then_branch |-> th,
     elif_branches |-> el, else_branch |-> els]
WhileStatement(c, b) == [k |-> "WhileStatement", condition |-> c, body |-> b]
ForStatement(v, it, b) == [k |-> "ForStatement", variable |-> v, iterable |-> it, body |-> b]
BreakStatement == [k |-> "BreakStatement"]
ContinueStatement == [k |-> "ContinueStatement"]
ReturnStatement(e) == [k |-> "ReturnStatement", value |-> e]
Parameter(n, d) == [name |-> n, default_value |-> d]
FunctionDeclaration(n, ps, b) ==
    [k |-> "FunctionDeclaration", name |-> n, parameters |-> ps, body |-> b]
Program(ss) == [k |-> "Program", statements |-> ss]
EventDeclaration(n, fs) == [k |-> "EventDeclaration", name |-> n, fields |-> fs]
EmitStatement(n, as) == [k |-> "EmitStatement", event_name |-> n, arguments |-> as]
ContractDeclaration(n, b) == [k |-> "ContractDeclaration", name |-> n, body |-> b]

\* `if node.value:` on an Optional child
Present(node) == node.k # "None"

----------------------------------------------------------------------------
(* Environment (interpreter.py) *)

\* Environment.__init__
Environment(parent) == [variables |-> EmptyMap, constants |-> {}, parent |-> parent]

\* a define that writes into the enclosing scope when there is one
define_in_parent(h, c, name, value, is_const) ==
    IF h[c].parent = 0
    THEN [h EXCEPT ![c].variables = Put(@, name, value)]
    ELSE [h EXCEPT ![h[c].parent].variables = Put(@, name, value)]

\* Environment.define on the heap object c
define(h, c, name, value, is_const) ==
    [h EXCEPT ![c] = [variables |-> Put(h[c].variables, name, value),
                      constants |-> IF is_const THEN h[c].constants \cup {name}
                                    ELSE h[c].constants,
                      parent |-> h[c].parent]]

\* an assign that never looks at `constants`
RECURSIVE assign_ignoring_constants(_, _, _, _)
assign_ignoring_constants(h, c, name, value) ==
    IF name \in DOMAIN h[c].variables
    THEN [ok |-> TRUE, h |-> [h EXCEPT ![c].variables = Put(h[c].variables, name, value)],
          e |-> NoErr]
    ELSE IF h[c].parent # 0
    THEN assign_ignoring_constants(h, h[c].parent, name, value)
    ELSE [ok |-> FALSE, h |-> h, e |-> Err("RuntimeError", "Undefined variable", name)]

\* Environment.assign: [ok, h, e]
RECURSIVE assign(_, _, _, _)
assign(h, c, name, value) ==
    IF name \in DOMAIN h[c].variables
    THEN IF name \in h[c].constants
         THEN [ok |-> FALSE, h |-> h, e |-> Err("RuntimeError", "Cannot reassign constant", name)]
         ELSE [ok |-> TRUE, h |-> [h EXCEPT ![c].variables = Put(h[c].variables, name, value)],
               e |-> NoErr]
    ELSE IF h[c].parent # 0
    THEN assign(h, h[c].parent, name, value)
    ELSE [ok |-> FALSE, h |-> h, e |-> Err("RuntimeError", "Undefined variable", name)]

\* Environment.get
RECURSIVE get(_, _, _)
get(h, c, name) ==
    IF name \in DOMAIN h[c].variables THEN Ok(h[c].variables[name])
    ELSE IF h[c].parent # 0 THEN get(h, h[c].parent, name)
    ELSE Fail(Err("RuntimeError", "Undefined variable", name))

\* Environment.exists
RECURSIVE exists(_, _, _)
exists(h, c, name) ==
    IF name \in DOMAIN h[c].variables THEN TRUE
    ELSE IF h[c].parent # 0 THEN exists(h, h[c].parent, name)
    ELSE FALSE

----------------------------------------------------------------------------
(* Interpreter (interpreter.py).  The handlers thread the interpreter state *)
(* S = [envs, cur, events, out, trace] and return [s, tag, v, e]:          *)
(*   tag "val"       the handler returned v                                *)
(*   tag "err"       it raised the exception e                             *)
(*   tag "return"    it raised ReturnValue(v)                              *)
(*   tag "break" / "continue"   it raised BreakException/ContinueException *)
(*   tag "diverge"   the run needs more than Fuel iterations/calls         *)
(*   tag "unmodelled"  the run uses a host facility outside the model      *)

Val(S, v) == [s |-> S, tag |-> "val", v |-> v, e |-> NoErr]
Raise(S, e) == [s |-> S, tag |-> "err", v |-> None, e |-> e]
Signal(S, tag, v) == [s |-> S, tag |-> tag, v |-> v, e |-> NoErr]
Log(r, entry) == [r EXCEPT !.s.trace = Append(@, entry)]

\* ghost: the nearest scope from c that binds name (0: none does)
RECURSIVE Binder(_, _, _)
Binder(h, c, name) ==
    IF name \in DOMAIN h[c].variables THEN c
    ELSE IF h[c].parent # 0 THEN Binder(h, h[c].parent, name)
    ELSE 0

\* Interpreter._is_truthy
is_truthy(value) ==
    IF value.t = "none" THEN FALSE
    ELSE IF value.t = "bool" THEN value.v
    ELSE IF value.t = "int" THEN value.v # 0
    ELSE IF value.t = "float" THEN value.v[1] # 0
    ELSE IF value.t = "str" THEN Len(value.v) > 0
    ELSE IF value.t = "list" THEN Len(value.v) > 0
    ELSE TRUE

\* the host callables of Interpreter._setup_builtins that the model runs
call_builtin(name, args, S) ==
    IF name \in {"println", "print"}
    THEN Val([S EXCEPT !.out = Append(@, [fn |-> name, args |-> args])], None)
    ELSE IF name = "len"
    THEN IF Len(args) # 1 THEN Raise(S, Err("TypeError", "len", ""))
         ELSE IF args[1].t \in {"list", "str"} THEN Val(S, IntV(Len(args[1].v)))
         ELSE Raise(S, Err("RuntimeError", "len() not supported for", args[1].t))
    ELSE Signal(S, "unmodelled", None)

\* the ops table of Interpreter.evaluate_BinaryOp
apply_binary(op, a, b) ==
    CASE op = "+" -> py_add(a, b)
      [] op = "-" -> py_sub(a, b)
      [] op = "*" -> py_mul(a, b)
      [] op = "/" -> py_truediv(a, b)
      [] op = "%" -> py_mod(a, b)
      [] op = "**" -> py_pow(a, b)
      [] OTHER -> Fail(Err("RuntimeError", "Unknown binary operator", op))

\* the ops table of Interpreter.evaluate_ComparisonOp
apply_comparison(op, a, b) ==
    CASE op = "==" -> Ok(BoolV(py_eq(a, b)))
      [] op = "!=" -> Ok(BoolV(~py_eq(a, b)))
      [] op = "<" -> py_lt(a, b)
      [] op = ">" -> py_lt(b, a)
      [] op = "<=" -> py_le(a, b)
      [] op = ">=" -> py_le(b, a)
      [] OTHER -> Fail(Err("RuntimeError", "Unknown comparison operator", op))

\* Interpreter._apply_compound_assignment
apply_compound_assignment(left, op, right) ==
    CASE op = "+=" -> py_add(left, right)
      [] op = "-=" -> py_sub(left, right)
      [] op = "*=" -> py_mul(left, right)
      [] op = "/=" -> py_truediv(left, right)
      [] OTHER -> Fail(Err("RuntimeError", "Unknown compound assignment operator", op))

\* continue with K on what a sub-evaluation returned; an exception or a
\* control-flow signal it raised propagates
Then(r, K(_)) == IF r.tag # "val" THEN r ELSE K(r)

\* return x.v, or raise x.e, in state S
Lift(S, x) == IF x.ok THEN Val(S, x.v) ELSE Raise(S, x.e)

RECURSIVE evaluate(_, _, _)
RECURSIVE execute(_, _, _)

\* [self.evaluate(x) for x in es], left to right
RECURSIVE eval_args(_, _, _, _, _)
eval_args(es, i, S, acc, fuel) ==
    IF i > Len(es) THEN Val(S, ListV(acc))
    ELSE Then(evaluate(es[i], S, fuel),
              LAMBDA r : eval_args(es, i + 1, r.s, Append(acc, r.v), fuel))

\* Interpreter.evaluate_Identifier
evaluate_Identifier(node, S) == Lift(S, get(S.envs, S.cur, node.name))

\* Interpreter.evaluate_BinaryOp
evaluate_BinaryOp(node, S, fuel) ==
    Then(evaluate(node.left, S, fuel), LAMBDA l :
    Then(evaluate(node.right, l.s, fuel), LAMBDA r :
    Lift(r.s, apply_binary(node.operator, l.v, r.v))))

\* Interpreter.evaluate_ComparisonOp
evaluate_ComparisonOp(node, S, fuel) ==
    Then(evaluate(node.left, S, fuel), LAMBDA l :
    Then(evaluate(node.right, l.s, fuel), LAMBDA r :
    Lift(r.s, apply_comparison(node.operator, l.v, r.v))))

\* Interpreter.evaluate_UnaryOp
evaluate_UnaryOp(node, S, fuel) ==
    Then(evaluate(node.operand, S, fuel), LAMBDA o :
        IF node.operator = "-" THEN Lift(o.s, py_neg(o.v))
        ELSE IF node.operator = "~"
        THEN IF IsIntLike(o.v) THEN Val(o.s, IntV(-NumOf(o.v)[1] - 1))
             ELSE Raise(o.s, Err("TypeError", "~", ""))
        ELSE IF node.operator = "not" THEN Val(o.s, BoolV(~is_truthy(o.v)))
        ELSE Raise(o.s, Err("RuntimeError", "Unknown unary operator", node.operator)))

\* Interpreter.evaluate_LogicalOp
evaluate_LogicalOp(node, S, fuel) ==
    Then(evaluate(node.left, S, fuel), LAMBDA left :
        IF node.operator = "and"
        THEN IF ~is_truthy(left.v) THEN left
             ELSE evaluate(node.right, left.s, fuel)
        ELSE IF node.operator = "or"
        THEN IF is_truthy(left.v) THEN left
             ELSE evaluate(node.right, left.s, fuel)
        ELSE Raise(left.s, Err("RuntimeError", "Unknown logical operator", node.operator)))

\* the parameter loop of Interpreter._call_function
RECURSIVE bind_parameters(_, _, _, _, _, _)
bind_parameters(params, i, args, func_env, S, fuel) ==
    IF i > Len(params) THEN Val(S, None)
    ELSE IF i <= Len(args)
    THEN bind_parameters(params, i + 1, args, func_env,
            [S EXCEPT !.envs = define(@, func_env, params[i].name, args[i], FALSE)], fuel)
    ELSE IF Present(params[i].default_value)
    THEN Then(evaluate(params[i].default_value, S, fuel), LAMBDA d :
            bind_parameters(params, i + 1, args, func_env,
                [d.s EXCEPT !.envs = define(@, func_env, params[i].name, d.v, FALSE)], fuel))
    ELSE bind_parameters(params, i + 1, args, func_env,
            [S EXCEPT !.envs = define(@, func_env, params[i].name, None, FALSE)], fuel)

\* ghost: what one call of a user function did; scope_before/scope_after are
\* the bindings of the function's closure scope when called and on return
CallEntry(func, S, r) ==
    [ev |-> "Call", name |-> func.declaration.name, closure |-> func.closure,
     caller |-> S.cur, tag |-> r.tag, v |-> r.v,
     scope_before |-> S.envs[func.closure].variables,
     scope_after |-> r.s.envs[func.closure].variables]

\* a _call_function that restores the caller's scope after the try statement
\* instead of in its finally clause
leave_function_without_finally(r, previous_env) ==
    IF r.tag = "val" THEN Val([r.s EXCEPT !.cur = previous_env], None)
    ELSE IF r.tag = "return" THEN Val([r.s EXCEPT !.cur = previous_env], r.v)
    ELSE r

\* the except/finally of Interpreter._call_function, r being what the body did
leave_function(r, previous_env) ==
    IF r.tag = "val" THEN Val([r.s EXCEPT !.cur = previous_env], None)
    ELSE IF r.tag = "return" THEN Val([r.s EXCEPT !.cur = previous_env], r.v)
    ELSE [r EXCEPT !.s.cur = previous_env]

\* Interpreter._call_function
call_function(func, args, S, fuel) ==
    IF fuel = 0 THEN Signal(S, "diverge", None)
    ELSE Then(bind_parameters(func.declaration.parameters, 1, args, Len(S.envs) + 1,
                  [S EXCEPT !.envs = Append(@, Environment(func.closure))], fuel - 1),
              LAMBDA b :
                  LET logged(res) == Log(res, CallEntry(func, S, res))
                  IN  logged(leave_function(
                          execute(func.declaration.body,
                                  [b.s EXCEPT !.cur = Len(S.envs) + 1], fuel - 1),
                          b.s.cur)))

\* Interpreter.evaluate_FunctionCall (struct construction is not in the model's trees)
evaluate_FunctionCall(node, S, fuel) ==
    Then(evaluate(node.function, S, fuel), LAMBDA func :
    Then(eval_args(node.arguments, 1, func.s, <<>>, fuel), LAMBDA args :
        IF func.v.t = "host" THEN call_builtin(func.v.v, args.v.v, args.s)
        ELSE IF func.v.t = "fn" THEN call_function(func.v.v, args.v.v, args.s, fuel)
        ELSE Raise(args.s, Err("RuntimeError", "Cannot call non-function", func.v.t))))

\* Interpreter.evaluate_ListLiteral
evaluate_ListLiteral(node, S, fuel) == eval_args(node.elements, 1, S, <<>>, fuel)

\* the loop of Interpreter.evaluate_MapLiteral (keys other than strings are
\* outside the model's values)
RECURSIVE eval_pairs(_, _, _, _, _)
eval_pairs(pairs, i, S, acc, fuel) ==
    IF i > Len(pairs) THEN Val(S, MapV(acc))
    ELSE Then(evaluate(pairs[i][1], S, fuel), LAMBDA key :
         Then(evaluate(pairs[i][2], key.s, fuel), LAMBDA value :
             IF key.v.t # "str" THEN Signal(value.s, "unmodelled", None)
             ELSE eval_pairs(pairs, i + 1, value.s, Put(acc, key.v.v, value.v), fuel)))

\* Interpreter.evaluate_MapLiteral
evaluate_MapLiteral(node, S, fuel) == eval_pairs(node.pairs, 1, S, EmptyMap, fuel)

\* Interpreter.evaluate_MemberAccess (struct instances are outside the model's values)
evaluate_MemberAccess(node, S, fuel) ==
    Then(evaluate(node.object, S, fuel), LAMBDA obj :
        IF obj.v.t = "map"
        THEN IF node.member \in DOMAIN obj.v.v THEN Val(obj.s, obj.v.v[node.member])
             ELSE Raise(obj.s, Err("RuntimeError", "Key not found in map", node.member))
        ELSE Raise(obj.s, Err("RuntimeError", "Cannot access member", node.member)))

\* Interpreter.evaluate / evaluate_default
evaluate(node, S, fuel) ==
    CASE node.k = "IntegerLiteral" -> Val(S, IntV(node.value))
      [] node.k = "BooleanLiteral" -> Val(S, BoolV(node.value))
      [] node.k = "StringLiteral" -> Val(S, StrV(node.value))
      [] node.k = "NullLiteral" -> Val(S, None)
      [] node.k = "ListLiteral" -> evaluate_ListLiteral(node, S, fuel)
      [] node.k = "MapLiteral" -> evaluate_MapLiteral(node, S, fuel)
      [] node.k = "MemberAccess" -> evaluate_MemberAccess(node, S, fuel)
      [] node.k = "Identifier" -> evaluate_Identifier(node, S)
      [] node.k = "BinaryOp" -> evaluate_BinaryOp(node, S, fuel)
      [] node.k = "UnaryOp" -> evaluate_UnaryOp(node, S, fuel)
      [] node.k = "ComparisonOp" -> evaluate_ComparisonOp(node, S, fuel)
      [] node.k = "LogicalOp" -> evaluate_LogicalOp(node, S, fuel)
      [] node.k = "FunctionCall" -> evaluate_FunctionCall(node, S, fuel)
      [] node.k = "IndexAccess" -> Signal(S, "unmodelled", None)
      [] OTHER -> Raise(S, Err("RuntimeError", "No evaluation method for", node.k))

----------------------------------------------------------------------------
(* Statement execution *)

\* Interpreter.execute_ExpressionStatement
execute_ExpressionStatement(node, S, fuel) == evaluate(node.expression, S, fuel)

\* ghost: a name bound by a declaration statement in scope `scope`
DeclEntry(ev, name, S) ==
    [ev |-> ev, name |-> name, scope |-> S.cur, bindings |-> S.envs[S.cur].variables]

\* Interpreter.execute_VariableDeclaration
execute_VariableDeclaration(node, S, fuel) ==
    Then(IF Present(node.value) THEN evaluate(node.value, S, fuel) ELSE Val(S, None),
         LAMBDA value :
             Log(Val([value.s EXCEPT !.envs =
                         define(@, value.s.cur, node.name, value.v, node.is_const)], None),
                 DeclEntry("VariableDeclaration", node.name, value.s)))

\* Interpreter.execute_Assignment, the Identifier branch after the value is known
assign_identifier(node, S, value) ==
    IF node.operator = "="
    THEN LET a == assign(S.envs, S.cur, node.target.name, value)
         IN  IF a.ok THEN Val([S EXCEPT !.envs = a.h], value) ELSE Raise(S, a.e)
    ELSE LET current == get(S.envs, S.cur, node.target.name)
         IN  IF ~current.ok THEN Raise(S, current.e)
             ELSE LET new_value == apply_compound_assignment(current.v, node.operator, value)
                  IN  IF ~new_value.ok THEN Raise(S, new_value.e)
                      ELSE LET a == assign(S.envs, S.cur, node.target.name, new_value.v)
                           IN  IF a.ok THEN Val([S EXCEPT !.envs = a.h], value)
                               ELSE Raise(S, a.e)

\* ghost: what one execution of an Assignment to an identifier did.  S is the
\* state the assignment found once its right-hand side was evaluated; binder is
\* the nearest scope binding the target (0: none); assigned says
\* Environment.assign was called
AssignmentEntry(node, S, r, assigned) ==
    LET b == Binder(S.envs, S.cur, node.target.name)
        bb == IF b = 0 THEN 1 ELSE b
    IN  [ev |-> "Assignment", name |-> node.target.name, operator |-> node.operator,
         scope |-> S.cur, binder |-> b,
         const |-> b # 0 /\ node.target.name \in S.envs[bb].constants,
         assigned |-> assigned, tag |-> r.tag, e |-> r.e,
         kept |-> r.s.envs[bb] = S.envs[bb],
         now |-> IF b # 0 THEN r.s.envs[bb].variables[node.target.name] ELSE None]

\* the Identifier branch of Interpreter.execute_Assignment, value being what
\* evaluating the right-hand side did
assign_value(node, value) ==
    IF value.tag # "val"
    THEN Log(value, AssignmentEntry(node, value.s, value, FALSE))
    ELSE LET current == get(value.s.envs, value.s.cur, node.target.name)
             reached == \/ node.operator = "="
                        \/ /\ current.ok
                           /\ apply_compound_assignment(current.v, node.operator, value.v).ok
             logged(r) == Log(r, AssignmentEntry(node, value.s, r, reached))
         IN  logged(assign_identifier(node, value.s, value.v))

\* Interpreter.execute_Assignment (index and member targets mutate shared
\* containers, which the model's values do not carry)
execute_Assignment(node, S, fuel) ==
    IF node.target.k = "Identifier" THEN assign_value(node, evaluate(node.value, S, fuel))
    ELSE IF node.target.k \in {"IndexAccess", "MemberAccess"}
    THEN Signal(S, "unmodelled", None)
    ELSE Then(evaluate(node.value, S, fuel),
              LAMBDA value : Raise(value.s, Err("RuntimeError", "Invalid assignment target",
                                                node.target.k)))

\* the loop of Interpreter.execute_Block
RECURSIVE exec_statements(_, _, _, _, _)
exec_statements(stmts, i, S, res, fuel) ==
    IF i > Len(stmts) THEN Val(S, res)
    ELSE Then(execute(stmts[i], S, fuel),
              LAMBDA r : exec_statements(stmts, i + 1, r.s, r.v, fuel))

\* Interpreter.execute_Block
execute_Block(node, S, fuel) == exec_statements(node.statements, 1, S, None, fuel)

\* the elif loop of Interpreter.execute_IfStatement
RECURSIVE elif_chain(_, _, _, _)
elif_chain(node, i, S, fuel) ==
    IF i > Len(node.elif_branches)
    THEN IF Present(node.else_branch) THEN execute(node.else_branch, S, fuel)
         ELSE Val(S, None)
    ELSE Then(evaluate(node.elif_branches[i][1], S, fuel), LAMBDA c :
             IF is_truthy(c.v) THEN execute(node.elif_branches[i][2], c.s, fuel)
             ELSE elif_chain(node, i + 1, c.s, fuel))

\* Interpreter.execute_IfStatement
execute_IfStatement(node, S, fuel) ==
    Then(evaluate(node.condition, S, fuel), LAMBDA c :
        IF is_truthy(c.v) THEN execute(node.then_branch, c.s, fuel)
        ELSE elif_chain(node, 1, c.s, fuel))

\* the loop of Interpreter.execute_WhileStatement
RECURSIVE while_loop(_, _, _, _)
while_loop(node, S, res, fuel) ==
    LET after_body(r) ==
            IF r.tag = "val" THEN while_loop(node, r.s, r.v, fuel - 1)
            ELSE IF r.tag = "break" THEN Val(r.s, res)
            ELSE IF r.tag = "continue" THEN while_loop(node, r.s, res, fuel - 1)
            ELSE r
    IN  IF fuel = 0 THEN Signal(S, "diverge", None)
        ELSE Then(evaluate(node.condition, S, fuel), LAMBDA c :
                 IF ~is_truthy(c.v) THEN Val(c.s, res)
                 ELSE after_body(execute(node.body, c.s, fuel - 1)))

\* Interpreter.execute_WhileStatement
execute_WhileStatement(node, S, fuel) == while_loop(node, S, None, fuel)

\* a for loop that lets BreakException through to whatever encloses it
RECURSIVE for_loop_break_escapes(_, _, _, _, _, _)
for_loop_break_escapes(node, items, i, S, res, fuel) ==
    LET after_body(r) ==
            IF r.tag = "val"
            THEN for_loop_break_escapes(node, items, i + 1, r.s, r.v, fuel - 1)
            ELSE IF r.tag = "continue"
            THEN for_loop_break_escapes(node, items, i + 1, r.s, res, fuel - 1)
            ELSE r
    IN  IF i > Len(items) THEN Val(S, res)
        ELSE IF fuel = 0 THEN Signal(S, "diverge", None)
        ELSE after_body(execute(node.body,
                 [S EXCEPT !.envs = define(@, S.cur, node.variable, items[i], FALSE)],
                 fuel - 1))

\* the loop of Interpreter.execute_ForStatement, inside the try
RECURSIVE for_loop(_, _, _, _, _, _)
for_loop(node, items, i, S, res, fuel) ==
    LET after_body(r) ==
            IF r.tag = "val" THEN for_loop(node, items, i + 1, r.s, r.v, fuel - 1)
            ELSE IF r.tag = "break" THEN Val(r.s, res)
            ELSE IF r.tag = "continue" THEN for_loop(node, items, i + 1, r.s, res, fuel - 1)
            ELSE r
    IN  IF i > Len(items) THEN Val(S, res)
        ELSE IF fuel = 0 THEN Signal(S, "diverge", None)
        ELSE after_body(execute(node.body,
                 [S EXCEPT !.envs = define(@, S.cur, node.variable, items[i], FALSE)],
                 fuel - 1))

\* a for statement that binds its variable in the enclosing scope
execute_ForStatement_unscoped(node, S, fuel) ==
    Then(evaluate(node.iterable, S, fuel), LAMBDA iterable :
        IF iterable.v.t = "list"
        THEN for_loop(node, iterable.v.v, 1, iterable.s, None, fuel)
        ELSE Raise(iterable.s, Err("TypeError", "object is not iterable", iterable.v.t)))

\* the finally of Interpreter.execute_ForStatement, r being what the loop did
leave_loop(r, previous_env) == [r EXCEPT !.s.cur = previous_env]

\* Interpreter.execute_ForStatement
execute_ForStatement(node, S, fuel) ==
    Then(evaluate(node.iterable, S, fuel), LAMBDA iterable :
        LET previous_env == iterable.s.cur
            loop_env == Len(iterable.s.envs) + 1
            entered == [iterable.s EXCEPT !.envs = Append(@, Environment(previous_env)),
                                          !.cur = loop_env]
        IN  leave_loop(
                IF iterable.v.t = "list"
                THEN for_loop(node, iterable.v.v, 1, entered, None, fuel)
                ELSE IF iterable.v.t = "str" THEN Signal(entered, "unmodelled", None)
                ELSE Raise(entered, Err("TypeError", "object is not iterable", iterable.v.t)),
                previous_env))

\* Interpreter.execute_ReturnStatement
execute_ReturnStatement(node, S, fuel) ==
    IF Present(node.value)
    THEN Then(evaluate(node.value, S, fuel),
              LAMBDA value : Signal(value.s, "return", value.v))
    ELSE Signal(S, "return", None)

\* a declaration whose function closes over a copy of the current scope
execute_FunctionDeclaration_snapshot(node, S) ==
    LET copy == Len(S.envs) + 1
        h == Append(S.envs, S.envs[S.cur])
    IN  Log(Val([S EXCEPT !.envs = define(h, S.cur, node.name, FnV(node, copy), FALSE)], None),
            DeclEntry("FunctionDeclaration", node.name, S))

\* Interpreter.execute_FunctionDeclaration
execute_FunctionDeclaration(node, S) ==
    Log(Val([S EXCEPT !.envs = define(@, S.cur, node.name, FnV(node, S.cur), FALSE)], None),
        DeclEntry("FunctionDeclaration", node.name, S))

\* the finally of Interpreter.execute_ContractDeclaration and the define after
\* it, r being what the body did
leave_contract(r, name, previous_env, contract_env) ==
    IF r.tag = "val"
    THEN Val([r.s EXCEPT !.cur = previous_env,
                         !.envs = define(@, previous_env, name,
                                         ContractV(name, contract_env), FALSE)], None)
    ELSE [r EXCEPT !.s.cur = previous_env]

\* Interpreter.execute_ContractDeclaration
execute_ContractDeclaration(node, S, fuel) ==
    leave_contract(execute(node.body,
                           [S EXCEPT !.envs = Append(@, Environment(S.cur)),
                                     !.cur = Len(S.envs) + 1], fuel),
                   node.name, S.cur, Len(S.envs) + 1)

\* Interpreter.execute_EventDeclaration
execute_EventDeclaration(node, S) ==
    Val([S EXCEPT !.events = Put(@, node.name, <<>>),
                  !.envs = define(@, S.cur, node.name,
                                  EventV(node.name, node.fields), FALSE)], None)

\* ghost: what one completed emit did to the event log
EmitEntry(node, args, before, after) ==
    [ev |-> "Emit", name |-> node.event_name, args |-> args,
     before |-> before, after |-> after]

\* the line execute_EmitStatement prints
EventLine(name, args) == [fn |-> "[EVENT]", args |-> <<StrV(name), ListV(args)>>]

\* the log under name, [] when the key is absent
LogOf(ev, name) == IF name \in DOMAIN ev THEN ev[name] ELSE <<>>

\* an emit that puts its entry at the front of the log
execute_EmitStatement_prepend(node, S, fuel) ==
    Then(eval_args(node.arguments, 1, S, <<>>, fuel), LAMBDA args :
        LET logged == Put(args.s.events, node.event_name,
                          <<args.v.v>> \o LogOf(args.s.events, node.event_name))
        IN  Log(Val([args.s EXCEPT !.events = logged,
                                   !.out = Append(@, EventLine(node.event_name, args.v.v))],
                    None),
                EmitEntry(node, args.v.v, args.s.events, logged)))

\* Interpreter.execute_EmitStatement
execute_EmitStatement(node, S, fuel) ==
    Then(eval_args(node.arguments, 1, S, <<>>, fuel), LAMBDA args :
        LET logged == Put(args.s.events, node.event_name,
                          Append(LogOf(args.s.events, node.event_name), args.v.v))
        IN  Log(Val([args.s EXCEPT !.events = logged,
                                   !.out = Append(@, EventLine(node.event_name, args.v.v))],
                    None),
                EmitEntry(node, args.v.v, args.s.events, logged)))

\* Interpreter.execute / execute_default
execute(node, S, fuel) ==
    CASE node.k = "ExpressionStatement" -> execute_ExpressionStatement(node, S, fuel)
      [] node.k = "VariableDeclaration" -> execute_VariableDeclaration(node, S, fuel)
      [] node.k = "Assignment" -> execute_Assignment(node, S, fuel)
      [] node.k = "Block" -> execute_Block(node, S, fuel)
      [] node.k = "IfStatement" -> execute_IfStatement(node, S, fuel)
      [] node.k = "WhileStatement" -> execute_WhileStatement(node, S, fuel)
      [] node.k = "ForStatement" -> execute_ForStatement(node, S, fuel)
      [] node.k = "BreakStatement" -> Signal(S, "break", None)
      [] node.k = "ContinueStatement" -> Signal(S, "continue", None)
      [] node.k = "ReturnStatement" -> execute_ReturnStatement(node, S, fuel)
      [] node.k = "FunctionDeclaration" -> execute_FunctionDeclaration(node, S)
      [] node.k = "ContractDeclaration" -> execute_ContractDeclaration(node, S, fuel)
      [] node.k = "EventDeclaration" -> execute_EventDeclaration(node, S)
      [] node.k = "EmitStatement" -> execute_EmitStatement(node, S, fuel)
      [] node.k \in {"StructDeclaration", "EnumDeclaration", "ImplBlock"} ->
             Signal(S, "unmodelled", None)
      [] OTHER -> Raise(S, Err("RuntimeError", "No execution method for", node.k))

\* Interpreter.run
run(prog, S, fuel) == exec_statements(prog.statements, 1, S, None, fuel)

----------------------------------------------------------------------------
(* Compiler (vm.py).  A compiler object is the record [instructions,       *)
(* constants, locals, local_count, loop_starts, loop_ends, error].         *)
(* Addresses count from 0 as in the code: the instruction at address a is  *)
(* instructions[a + 1].  error says compile_default or compile_expr_default *)
(* raised.                                                                 *)

Instruction(opcode, operand) == [opcode |-> opcode, operand |-> operand]

Front(s) == SubSeq(s, 1, Len(s) - 1)

\* Compiler.__init__
NewCompiler ==
    [instructions |-> <<>>, constants |-> <<>>, locals |-> EmptyMap, local_count |-> 0,
     loop_starts |-> <<>>, loop_ends |-> <<>>, error |-> FALSE]

\* Compiler.emit (the address it returns is Len(C.instructions))
emit(C, opcode, operand) ==
    [C EXCEPT !.instructions = Append(@, Instruction(opcode, operand))]

\* Compiler.patch_jump
patch_jump(C, address, target) ==
    [C EXCEPT !.instructions[address + 1].operand = target]

\* Compiler.add_constant (the index it returns is Len(C.constants))
add_constant(C, value) == [C EXCEPT !.constants = Append(@, value)]

\* Compiler.get_local
get_local(C, name) ==
    IF name \in DOMAIN C.locals THEN C
    ELSE [C EXCEPT !.locals = Put(@, name, C.local_count), !.local_count = @ + 1]

\* for break_jump in self.loop_ends.pop(): self.patch_jump(break_jump, loop_end)
RECURSIVE patch_breaks(_, _, _, _)
patch_breaks(C, jumps, i, loop_end) ==
    IF i > Len(jumps) THEN C
    ELSE patch_breaks(patch_jump(C, jumps[i], loop_end), jumps, i + 1, loop_end)

\* op_map of compile_BinaryOp, of compile_ComparisonOp, and _emit_compound_op
OpCodeOf(op) ==
    CASE op \in {"+", "+="} -> "ADD"
      [] op \in {"-", "-="} -> "SUB"
      [] op \in {"*", "*="} -> "MUL"
      [] op \in {"/", "/="} -> "DIV"
      [] op = "%" -> "MOD"
      [] op = "**" -> "POW"
      [] op = "==" -> "EQ"
      [] op = "!=" -> "NE"
      [] op = "<" -> "LT"
      [] op = ">" -> "GT"
      [] op = "<=" -> "LE"
      [] op = ">=" -> "GE"
      [] OTHER -> ""

emit_op(C, op) == IF OpCodeOf(op) = "" THEN C ELSE emit(C, OpCodeOf(op), None)

RECURSIVE compile_expression(_, _)
RECURSIVE compile_statement(_, _)

RECURSIVE compile_expressions(_, _, _)
compile_expressions(es, i, C) ==
    IF i > Len(es) \/ C.error THEN C
    ELSE compile_expressions(es, i + 1, compile_expression(es[i], C))

\* Compiler.compile_LogicalOp
compile_LogicalOp(expr, C) ==
    LET C1 == compile_expression(expr.left, C)
        jump == Len(C1.instructions)
    IN  IF expr.operator \in {"and", "or"}
        THEN LET C2 == emit(C1, IF expr.operator = "and" THEN "JUMP_IF_FALSE"
                                ELSE "JUMP_IF_TRUE", 0)
                 C3 == compile_expression(expr.right, emit(C2, "POP", None))
             IN  patch_jump(C3, jump, Len(C3.instructions))
        ELSE C1

\* Compiler.compile_UnaryOp
compile_UnaryOp(expr, C) ==
    LET C1 == compile_expression(expr.operand, C)
    IN  IF expr.operator = "-" THEN emit(C1, "NEG", None)
        ELSE IF expr.operator = "~" THEN emit(C1, "BIT_NOT", None)
        ELSE IF expr.operator = "not" THEN emit(C1, "NOT", None)
        ELSE C1

\* Compiler.compile_FunctionCall
compile_FunctionCall(expr, C) ==
    emit(compile_expression(expr.function, compile_expressions(expr.arguments, 1, C)),
         "CALL", Len(expr.arguments))

\* the loop of Compiler.compile_MapLiteral
RECURSIVE compile_pairs(_, _, _)
compile_pairs(pairs, i, C) ==
    IF i > Len(pairs) \/ C.error THEN C
    ELSE compile_pairs(pairs, i + 1,
                       compile_expression(pairs[i][2], compile_expression(pairs[i][1], C)))

\* Compiler.compile_MapLiteral
compile_MapLiteral(expr, C) ==
    emit(compile_pairs(expr.pairs, 1, C), "BUILD_MAP", Len(expr.pairs))

\* Compiler.compile_MemberAccess
compile_MemberAccess(expr, C) ==
    LET compiled(C1) == emit(add_constant(C1, StrV(expr.member)), "GET_ATTR", Len(C1.constants))
    IN  compiled(compile_expression(expr.object, C))

\* Compiler.compile_expression and the literal, identifier, list and operator methods
compile_expression(expr, C) ==
    CASE expr.k = "IntegerLiteral" -> emit(C, "PUSH", IntV(expr.value))
      [] expr.k = "StringLiteral" -> emit(C, "PUSH", StrV(expr.value))
      [] expr.k = "BooleanLiteral" -> emit(C, "PUSH", BoolV(expr.value))
      [] expr.k = "NullLiteral" -> emit(C, "PUSH", None)
      [] expr.k = "Identifier" -> emit(C, "LOAD", expr.name)
      [] expr.k = "ListLiteral" ->
            emit(compile_expressions(expr.elements, 1, C), "BUILD_LIST", Len(expr.elements))
      [] expr.k \in {"BinaryOp", "ComparisonOp"} ->
            emit_op(compile_expression(expr.right, compile_expression(expr.left, C)),
                    expr.operator)
      [] expr.k = "UnaryOp" -> compile_UnaryOp(expr, C)
      [] expr.k = "LogicalOp" -> compile_LogicalOp(expr, C)
      [] expr.k = "FunctionCall" -> compile_FunctionCall(expr, C)
      [] expr.k = "MapLiteral" -> compile_MapLiteral(expr, C)
      [] expr.k = "MemberAccess" -> compile_MemberAccess(expr, C)
      [] OTHER -> [C EXCEPT !.error = TRUE]

RECURSIVE compile_statements(_, _, _)
compile_statements(stmts, i, C) ==
    IF i > Len(stmts) \/ C.error THEN C
    ELSE compile_statements(stmts, i + 1, compile_statement(stmts[i], C))

\* Compiler.compile_Block
compile_Block(block, C) == compile_statements(block.statements, 1, C)

\* Compiler.compile_VariableDeclaration
compile_VariableDeclaration(stmt, C) ==
    LET C1 == IF Present(stmt.value) THEN compile_expression(stmt.value, C)
              ELSE emit(C, "PUSH", None)
        C2 == get_local(C1, stmt.name)
    IN  emit(C2, "DEFINE", <<stmt.name, C2.locals[stmt.name]>>)

\* Compiler.compile_Assignment, Identifier target (an IndexAccess target is
\* outside the model's trees; any other target emits nothing)
compile_Assignment(stmt, C) ==
    IF stmt.target.k # "Identifier" THEN C
    ELSE IF stmt.operator = "="
    THEN emit(compile_expression(stmt.value, C), "STORE", stmt.target.name)
    ELSE emit(emit_op(compile_expression(stmt.value, emit(C, "LOAD", stmt.target.name)),
                      stmt.operator),
              "STORE", stmt.target.name)

\* the elif loop of Compiler.compile_IfStatement; its JUMP 0 is never patched
RECURSIVE compile_elifs(_, _, _)
compile_elifs(branches, i, C) ==
    IF i > Len(branches) THEN C
    ELSE LET C1 == compile_expression(branches[i][1], C)
             elif_jump == Len(C1.instructions)
             C2 == compile_Block(branches[i][2], emit(C1, "JUMP_IF_FALSE", 0))
             C3 == emit(C2, "JUMP", 0)
         IN  compile_elifs(branches, i + 1, patch_jump(C3, elif_jump, Len(C3.instructions)))

\* Compiler.compile_IfStatement
compile_IfStatement(stmt, C) ==
    LET C1 == compile_expression(stmt.condition, C)
        jump_if_false == Len(C1.instructions)
        C2 == compile_Block(stmt.then_branch, emit(C1, "JUMP_IF_FALSE", 0))
        jump_to_end == Len(C2.instructions)
        C3 == emit(C2, "JUMP", 0)
        C4 == compile_elifs(stmt.elif_branches, 1,
                            patch_jump(C3, jump_if_false, Len(C3.instructions)))
        C5 == IF Present(stmt.else_branch) THEN compile_Block(stmt.else_branch, C4) ELSE C4
    IN  patch_jump(C5, jump_to_end, Len(C5.instructions))

\* the end of compile_WhileStatement and compile_ForStatement
close_loop(C, exit_jump) ==
    LET loop_end == Len(C.instructions)
        C1 == patch_jump(C, exit_jump, loop_end)
        C2 == patch_breaks(C1, C1.loop_ends[Len(C1.loop_ends)], 1, loop_end)
    IN  [C2 EXCEPT !.loop_ends = Front(@), !.loop_starts = Front(@)]

\* Compiler.compile_WhileStatement
compile_WhileStatement(stmt, C) ==
    LET loop_start == Len(C.instructions)
        C1 == compile_expression(stmt.condition,
                  [C EXCEPT !.loop_starts = Append(@, loop_start),
                            !.loop_ends = Append(@, <<>>)])
        exit_jump == Len(C1.instructions)
        C2 == compile_Block(stmt.body, emit(C1, "JUMP_IF_FALSE", 0))
    IN  close_loop(emit(C2, "JUMP", loop_start), exit_jump)

\* Compiler.compile_ForStatement
compile_ForStatement(stmt, C) ==
    LET C1 == get_local(compile_expression(stmt.iterable, C), "__iter__")
        C2 == get_local(emit(C1, "DEFINE", <<"__iter__", C1.locals["__iter__"]>>), "__idx__")
        C3 == emit(emit(C2, "PUSH", IntV(0)), "DEFINE", <<"__idx__", C2.locals["__idx__"]>>)
        loop_start == Len(C3.instructions)
        C4 == emit(emit([C3 EXCEPT !.loop_starts = Append(@, loop_start),
                                   !.loop_ends = Append(@, <<>>)],
                        "LOAD", "__idx__"), "LOAD", "__iter__")
        C5 == emit(emit(add_constant(C4, StrV("__len__")), "GET_ATTR", Len(C4.constants)),
                   "LT", None)
        exit_jump == Len(C5.instructions)
        C6 == emit(emit(emit(emit(C5, "JUMP_IF_FALSE", 0), "LOAD", "__iter__"),
                        "LOAD", "__idx__"), "INDEX", None)
        C7 == get_local(C6, stmt.variable)
        C8 == compile_Block(stmt.body,
                            emit(C7, "DEFINE", <<stmt.variable, C7.locals[stmt.variable]>>))
        C9 == emit(emit(emit(emit(C8, "LOAD", "__idx__"), "PUSH", IntV(1)), "ADD", None),
                   "STORE", "__idx__")
    IN  close_loop(emit(C9, "JUMP", loop_start), exit_jump)

\* a compile_BreakStatement that records the jump for the outermost loop
compile_BreakStatement_outermost(C) ==
    IF C.loop_ends # <<>>
    THEN [emit(C, "JUMP", 0) EXCEPT !.loop_ends[1] = Append(@, Len(C.instructions))]
    ELSE C

\* Compiler.compile_BreakStatement
compile_BreakStatement(C) ==
    IF C.loop_ends # <<>>
    THEN [emit(C, "JUMP", 0) EXCEPT !.loop_ends[Len(C.loop_ends)] = Append(@, Len(C.instructions))]
    ELSE C

\* Compiler.compile_ContinueStatement
compile_ContinueStatement(C) ==
    IF C.loop_starts # <<>> THEN emit(C, "JUMP", C.loop_starts[Len(C.loop_starts)]) ELSE C

\* Compiler.compile_ReturnStatement
compile_ReturnStatement(stmt, C) ==
    emit(IF Present(stmt.value) THEN compile_expression(stmt.value, C)
         ELSE emit(C, "PUSH", None),
         "RETURN", None)

\* for param in stmt.parameters: func_compiler.get_local(param.name)
RECURSIVE declare_params(_, _, _)
declare_params(params, i, C) ==
    IF i > Len(params) THEN C ELSE declare_params(params, i + 1, get_local(C, params[i].name))

\* Compiler.compile_FunctionDeclaration
compile_FunctionDeclaration(stmt, C) ==
    LET fc == compile_statements(stmt.body.statements, 1,
                                 declare_params(stmt.parameters, 1, NewCompiler))
        func_compiler == emit(emit(fc, "PUSH", None), "RETURN", None)
        compiled_func == CompiledFunction(stmt.name,
                             [i \in 1..Len(stmt.parameters) |-> stmt.parameters[i].name],
                             func_compiler.instructions, func_compiler.local_count)
        const_idx == Len(C.constants)
        C1 == get_local(emit(add_constant(C, compiled_func), "LOAD_CONST", const_idx), stmt.name)
    IN  [emit(C1, "DEFINE", <<stmt.name, C1.locals[stmt.name]>>)
            EXCEPT !.error = @ \/ func_compiler.error]

\* Compiler.compile_statement / compile_default
compile_statement(stmt, C) ==
    CASE stmt.k = "ExpressionStatement" -> emit(compile_expression(stmt.expression, C), "POP", None)
      [] stmt.k = "VariableDeclaration" -> compile_VariableDeclaration(stmt, C)
      [] stmt.k = "Assignment" -> compile_Assignment(stmt, C)
      [] stmt.k = "Block" -> compile_Block(stmt, C)
      [] stmt.k = "IfStatement" -> compile_IfStatement(stmt, C)
      [] stmt.k = "WhileStatement" -> compile_WhileStatement(stmt, C)
      [] stmt.k = "ForStatement" -> compile_ForStatement(stmt, C)
      [] stmt.k = "BreakStatement" -> compile_BreakStatement(C)
      [] stmt.k = "ContinueStatement" -> compile_ContinueStatement(C)
      [] stmt.k = "ReturnStatement" -> compile_ReturnStatement(stmt, C)
      [] stmt.k = "FunctionDeclaration" -> compile_FunctionDeclaration(stmt, C)
      [] OTHER -> [C EXCEPT !.error = TRUE]

\* Compiler.compile on a new Compiler
compile(prog) == emit(compile_statements(prog.statements, 1, NewCompiler), "HALT", None)

----------------------------------------------------------------------------
(* VirtualMachine (vm.py).  One instruction is executed on the machine     *)
(* record M = [stack, frames, globals, pc, out, status, e]; status is      *)
(* "running", "halted" (HALT was executed), "failed" (the instruction      *)
(* raised e) or "unmodelled".                                              *)

IndexErrorPop == Err("IndexError", "pop from empty list", "")

VMRaise(M, e) == [M EXCEPT !.status = "failed", !.e = e]

\* VirtualMachine.peek
peek(st) == IF Len(st) > 0 THEN st[Len(st)] ELSE None

\* self.push(value)
push(M, value) == [M EXCEPT !.stack = Append(@, value)]

\* b, a = self.pop(), self.pop(); self.push(a <op> b)
binary(M, Op(_, _)) ==
    IF Len(M.stack) < 2 THEN VMRaise([M EXCEPT !.stack = <<>>], IndexErrorPop)
    ELSE LET r == Op(M.stack[Len(M.stack) - 1], M.stack[Len(M.stack)])
             rest == SubSeq(M.stack, 1, Len(M.stack) - 2)
         IN  IF r.ok THEN [M EXCEPT !.stack = Append(rest, r.v)]
             ELSE VMRaise([M EXCEPT !.stack = rest], r.e)

\* self.push(<op> self.pop())
unary(M, Op(_)) ==
    IF M.stack = <<>> THEN VMRaise(M, IndexErrorPop)
    ELSE LET r == Op(peek(M.stack))
         IN  IF r.ok THEN [M EXCEPT !.stack = Append(Front(@), r.v)]
             ELSE VMRaise([M EXCEPT !.stack = Front(@)], r.e)

\* LOAD
exec_LOAD(M, arg) ==
    IF M.frames # <<>> /\ arg \in DOMAIN M.frames[Len(M.frames)]
    THEN push(M, M.frames[Len(M.frames)][arg])
    ELSE IF arg \in DOMAIN M.globals THEN push(M, M.globals[arg])
    ELSE VMRaise(M, Err("builtins.RuntimeError", "Undefined variable", arg))

\* STORE and DEFINE: frame[name] = self.pop() on current_frame()
exec_STORE(M, name) ==
    IF M.stack = <<>> THEN VMRaise(M, IndexErrorPop)
    ELSE IF M.frames # <<>>
    THEN [M EXCEPT !.frames[Len(M.frames)] = Put(@, name, peek(M.stack)), !.stack = Front(@)]
    ELSE [M EXCEPT !.globals = Put(@, name, peek(M.stack)), !.stack = Front(@)]

\* JUMP_IF_FALSE (when_true = FALSE) and JUMP_IF_TRUE (when_true = TRUE)
exec_JUMP_IF(M, when_true, arg) ==
    IF M.stack = <<>> THEN VMRaise(M, IndexErrorPop)
    ELSE IF py_bool(peek(M.stack)) = when_true
    THEN [M EXCEPT !.stack = Front(@), !.pc = arg]
    ELSE [M EXCEPT !.stack = Front(@)]

\* the host callables of VirtualMachine._setup_builtins that the model runs
vm_call_host(M, name, args) ==
    IF name \in {"println", "print"}
    THEN push([M EXCEPT !.out = Append(@, [fn |-> name, args |-> args])], None)
    ELSE IF name \in {"len", "__len__"} /\ Len(args) = 1 /\ args[1].t \in {"list", "str"}
    THEN push(M, IntV(Len(args[1].v)))
    ELSE [M EXCEPT !.status = "unmodelled"]

\* CALL
exec_CALL(M, num_args) ==
    IF Len(M.stack) < num_args + 1 THEN VMRaise([M EXCEPT !.stack = <<>>], IndexErrorPop)
    ELSE LET func == peek(M.stack)
             n == Len(M.stack) - 1
             args == SubSeq(M.stack, n - num_args + 1, n)
             popped == [M EXCEPT !.stack = SubSeq(@, 1, n - num_args)]
         IN  IF func.t \in {"host", "method"} THEN vm_call_host(popped, func.v, args)
             ELSE IF func.t = "cfn"
             THEN [popped EXCEPT !.frames = Append(@,
                      [p \in {func.v.params[i] : i \in 1..Len(func.v.params)} |->
                          LET i == CHOOSE j \in 1..Len(func.v.params) :
                                      /\ func.v.params[j] = p
                                      /\ \A l \in j + 1..Len(func.v.params) : func.v.params[l] # p
                          IN  IF i <= Len(args) THEN args[i] ELSE None])]
             ELSE popped

\* RETURN
exec_RETURN(M) ==
    IF M.stack = <<>> THEN VMRaise(M, IndexErrorPop)
    ELSE IF M.frames = <<>> THEN VMRaise([M EXCEPT !.stack = Front(@)], IndexErrorPop)
    ELSE [M EXCEPT !.frames = Front(@)]

\* BUILD_LIST
exec_BUILD_LIST(M, arg) ==
    IF Len(M.stack) < arg THEN VMRaise([M EXCEPT !.stack = <<>>], IndexErrorPop)
    ELSE [M EXCEPT !.stack = Append(SubSeq(@, 1, Len(@) - arg),
                                    ListV(SubSeq(@, Len(@) - arg + 1, Len(@))))]

\* dict(reversed(pairs)) of BUILD_MAP: the pairs of stack items from..Len(st),
\* key below value, a later pair replacing an earlier one with the same key
RECURSIVE dict_of(_, _, _)
dict_of(st, from, acc) ==
    IF from > Len(st) THEN acc ELSE dict_of(st, from + 2, Put(acc, st[from].v, st[from + 1]))

\* BUILD_MAP (keys other than strings are outside the model's values)
exec_BUILD_MAP(M, arg) ==
    IF Len(M.stack) < 2 * arg THEN VMRaise([M EXCEPT !.stack = <<>>], IndexErrorPop)
    ELSE IF \E i \in 1..arg : M.stack[Len(M.stack) - 2 * i + 1].t # "str"
    THEN [M EXCEPT !.status = "unmodelled"]
    ELSE [M EXCEPT !.stack = Append(SubSeq(@, 1, Len(@) - 2 * arg),
                                    MapV(dict_of(@, Len(@) - 2 * arg + 1, EmptyMap)))]

\* GET_ATTR: on a dict, obj.get(member); on another object, of "__len__", the
\* one member the compiler asks for by itself
exec_GET_ATTR(M, member) ==
    IF M.stack = <<>> THEN VMRaise(M, IndexErrorPop)
    ELSE IF peek(M.stack).t = "map"
    THEN [M EXCEPT !.stack = Append(Front(@), IF member.v \in DOMAIN peek(M.stack).v
                                              THEN peek(M.stack).v[member.v]
                                              ELSE None)]
    ELSE IF member # StrV("__len__") THEN [M EXCEPT !.status = "unmodelled"]
    ELSE IF peek(M.stack).t \in {"list", "str"}
    THEN [M EXCEPT !.stack = Append(Front(@), MethodV("__len__"))]
    ELSE IF peek(M.stack).t \in {"none", "int", "bool", "float"}
    THEN [M EXCEPT !.stack = Append(Front(@), None)]
    ELSE [M EXCEPT !.status = "unmodelled"]

\* VirtualMachine._execute_instruction, for the opcodes Compiler emits on the
\* model's trees (pc has been advanced past instr already)
execute_instruction(instr, M, consts) ==
    LET op == instr.opcode
        arg == instr.operand
    IN  CASE op = "PUSH" -> push(M, arg)
          [] op = "POP" -> IF M.stack = <<>> THEN VMRaise(M, IndexErrorPop)
                           ELSE [M EXCEPT !.stack = Front(@)]
          [] op = "ADD" -> binary(M, py_add)
          [] op = "SUB" -> binary(M, py_sub)
          [] op = "MUL" -> binary(M, py_mul)
          [] op = "DIV" -> binary(M, py_truediv)
          [] op = "MOD" -> binary(M, py_mod)
          [] op = "POW" -> binary(M, py_pow)
          [] op = "NEG" -> unary(M, py_neg)
          [] op = "EQ" -> binary(M, LAMBDA a, b : Ok(BoolV(py_eq(a, b))))
          [] op = "NE" -> binary(M, LAMBDA a, b : Ok(BoolV(~py_eq(a, b))))
          [] op = "LT" -> binary(M, py_lt)
          [] op = "GT" -> binary(M, LAMBDA a, b : py_lt(b, a))
          [] op = "LE" -> binary(M, py_le)
          [] op = "GE" -> binary(M, LAMBDA a, b : py_le(b, a))
          [] op = "NOT" -> unary(M, LAMBDA a : Ok(BoolV(~py_bool(a))))
          [] op = "LOAD" -> exec_LOAD(M, arg)
          [] op \in {"STORE", "DEFINE"} -> exec_STORE(M, IF op = "STORE" THEN arg ELSE arg[1])
          [] op = "LOAD_CONST" -> push(M, consts[arg + 1])
          [] op = "JUMP" -> [M EXCEPT !.pc = arg]
          [] op = "JUMP_IF_FALSE" -> exec_JUMP_IF(M, FALSE, arg)
          [] op = "JUMP_IF_TRUE" -> exec_JUMP_IF(M, TRUE, arg)
          [] op = "CALL" -> exec_CALL(M, arg)
          [] op = "RETURN" -> exec_RETURN(M)
          [] op = "BUILD_LIST" -> exec_BUILD_LIST(M, arg)
          [] op = "BUILD_MAP" -> exec_BUILD_MAP(M, arg)
          [] op = "GET_ATTR" -> exec_GET_ATTR(M, consts[arg + 1])
          [] op = "HALT" -> [M EXCEPT !.status = "halted"]
          [] OTHER -> [M EXCEPT !.status = "unmodelled"]

----------------------------------------------------------------------------
(* The evaluator as a state machine: one Interpreter object whose run is    *)
(* called with one Program after the other, as REPL.execute does.          *)

BuiltinNames == {"print", "println", "len", "range", "str", "int", "float", "type",
                 "input", "append", "pop", "keys", "values", "abs", "min", "max", "sum"}

\* Interpreter.__init__ / _setup_builtins
GlobalEnv == [variables |-> [n \in BuiltinNames |-> HostV(n)], constants |-> {}, parent |-> 0]

\* Environment objects a value keeps alive
RECURSIVE ValueEnvs(_)
ValueEnvs(v) ==
    IF v.t = "fn" THEN {v.v.closure}
    ELSE IF v.t = "dict" THEN (IF v.v.type = "contract" THEN {v.v.env} ELSE {})
    ELSE IF v.t = "list" THEN UNION {ValueEnvs(v.v[i]) : i \in 1..Len(v.v)}
    ELSE {}

\* Environment objects reachable from the set R of them
RECURSIVE Reach(_, _)
Reach(h, R) ==
    LET more == R \cup ({h[c].parent : c \in R} \ {0})
                  \cup UNION {UNION {ValueEnvs(h[c].variables[n]) : n \in DOMAIN h[c].variables} :
                               c \in R}
    IN  IF more = R THEN R ELSE Reach(h, more)

SetMax(T) == CHOOSE m \in T : \A o \in T : o <= m

\* the heap once Python has freed every Environment no closure or scope refers to
Collect(h) ==
    LET live == Reach(h, {1})
    IN  [c \in 1..SetMax(live) |-> IF c \in live THEN h[c] ELSE Environment(0)]

RECURSIVE ValueBounded(_)
ValueBounded(v) ==
    IF v.t = "int" THEN Abs(v.v) <= MaxInt
    ELSE IF v.t = "float" THEN Abs(v.v[1]) <= MaxInt /\ v.v[2] <= MaxInt
    ELSE IF v.t = "list" THEN \A i \in 1..Len(v.v) : ValueBounded(v.v[i])
    ELSE TRUE

HeapBounded(h) ==
    /\ Len(h) <= MaxEnvs
    /\ \A c \in 1..Len(h) : \A n \in DOMAIN h[c].variables : ValueBounded(h[c].variables[n])

\* the exception Interpreter.run ends with (NoErr: it returned)
Uncaught(r) ==
    CASE r.tag = "val" -> NoErr
      [] r.tag = "err" -> r.e
      [] r.tag = "return" -> Err("ReturnValue", "", "")
      [] r.tag = "break" -> Err("BreakException", "", "")
      [] r.tag = "continue" -> Err("ContinueException", "", "")
      [] OTHER -> Err(r.tag, "", "")

VMBuiltinNames == {"print", "println", "len", "range", "str", "int", "float",
                   "abs", "min", "max", "sum"}

\* VirtualMachine.__init__ / _setup_builtins, before any run
VMIdle ==
    /\ program = Program(<<>>) /\ code = <<>> /\ constants = <<>> /\ stack = <<>>
    /\ frames = <<>> /\ globals = [n \in VMBuiltinNames |-> HostV(n)] /\ pc = 0
    /\ vmstate = "idle" /\ vmfailure = NoErr /\ vmout = <<>> /\ nruns = 0

InterpreterNew ==
    /\ envs = <<GlobalEnv>> /\ current_env = 1 /\ events = EmptyMap /\ out = <<>>
    /\ result = None /\ failure = NoErr /\ last = Program(<<>>) /\ trace = <<>>

\* no text read yet; REPL.__init__
FrontIdle ==
    /\ source = <<>> /\ tokens = <<>> /\ ast = Absent /\ diagnostic = NoDiag
    /\ exit_code = 0
    /\ use_vm = FALSE /\ multiline_buffer = <<>> /\ brace_count = 0
    /\ session = "running" /\ bound = {}

Init == InterpreterNew /\ VMIdle /\ FrontIdle

\* Interpreter.run(prog) on this Interpreter
InterpreterRun(prog) ==
    LET finished(r) ==
            /\ r.tag \notin {"diverge", "unmodelled"}
            /\ HeapBounded(Collect(r.s.envs))
            /\ envs' = Collect(r.s.envs)
            /\ current_env' = r.s.cur
            /\ events' = r.s.events
            /\ out' = r.s.out
            /\ result' = (IF r.tag = "val" THEN r.v ELSE None)
            /\ failure' = Uncaught(r)
            /\ last' = prog
            /\ trace' = r.s.trace
    IN  finished(run(prog, [envs |-> envs, cur |-> current_env, events |-> events,
                            out |-> <<>>, trace |-> <<>>], Fuel))


Lit0 == IntegerLiteral(0)
Lit1 == IntegerLiteral(1)
Lit2 == IntegerLiteral(2)
Call0(f) == FunctionCall(Identifier(f), <<>>)
Say(e) == FunctionCall(Identifier("println"), <<e>>)
One(stmt) == Program(<<stmt>>)

----------------------------------------------------------------------------
(* Constants in the evaluator: declarations of K, and assignments to K     *)
(* from the declaring scope, from a loop body and from a function body.    *)

AssignOps == {"=", "+=", "-=", "*=", "/="}

KDecls == {VariableDeclaration("K", e, c) : e \in {Lit1, Lit2}, c \in BOOLEAN}

KAssigns == {Assignment(Identifier("K"), op, e) :
                op \in AssignOps, e \in {Lit0, Identifier("y")}}

\* fn g() { [let K = 0] a }
FnAssignK(a, shadow) ==
    FunctionDeclaration("g", <<>>,
        Block(IF shadow THEN <<VariableDeclaration("K", Lit0, FALSE), a>> ELSE <<a>>))

DeclareK == \E d \in KDecls : InterpreterRun(One(d)) /\ UNCHANGED <<vvars, fvars>>

DeclareFunctionK == InterpreterRun(One(FunctionDeclaration("K", <<>>, Block(<<>>)))) /\ UNCHANGED <<vvars, fvars>>

AssignK == \E a \in KAssigns : InterpreterRun(One(a)) /\ UNCHANGED <<vvars, fvars>>

AssignKInLoop ==
    \E a \in KAssigns, v \in {"v", "K"} :
        InterpreterRun(One(ForStatement(v, ListLiteral(<<Lit1>>), Block(<<a>>)))) /\ UNCHANGED <<vvars, fvars>>

AssignKInFunction ==
    \E a \in {Assignment(Identifier("K"), "=", Lit1), Assignment(Identifier("K"), "/=", Lit0)},
       shadow \in BOOLEAN :
        InterpreterRun(Program(<<FnAssignK(a, shadow), ExpressionStatement(Call0("g"))>>)) /\ UNCHANGED <<vvars, fvars>>

ConstNext ==
    \/ DeclareK
    \/ DeclareFunctionK
    \/ AssignK
    \/ AssignKInLoop
    \/ AssignKInFunction

ConstSpec == Init /\ [][ConstNext]_vars

CannotReassign(name) == Err("RuntimeError", "Cannot reassign constant", name)

\* C5 (as amended): every assignment, by any of = += -= *= /=, to a name whose
\* nearest binding is const, from the declaring scope or an inner one, fails
\* and leaves the binding unchanged; once the right-hand side and, for a
\* compound operator, the arithmetic on the current value have evaluated, the
\* failure is the runtime failure "Cannot reassign constant '<name>'".
C5_ConstAssignmentFails ==
    \A i \in 1..Len(trace) :
        (trace[i].ev = "Assignment" /\ trace[i].const) =>
            /\ trace[i].tag = "err"
            /\ trace[i].kept
            /\ trace[i].assigned => trace[i].e = CannotReassign(trace[i].name)

\* C5 as stated: every such assignment raises the failure that names the
\* variable and says it is a constant.
C5_AlwaysNamesConstant ==
    \A i \in 1..Len(trace) :
        (trace[i].ev = "Assignment" /\ trace[i].const) =>
            /\ trace[i].tag = "err"
            /\ trace[i].kept
            /\ trace[i].e = CannotReassign(trace[i].name)

\* a compound assignment from an inner scope to a const of an outer scope failed
C5_Witness ==
    \E i \in 1..Len(trace) :
        /\ trace[i].ev = "Assignment" /\ trace[i].const
        /\ trace[i].scope # trace[i].binder
        /\ trace[i].operator = "+="
        /\ trace[i].e = CannotReassign("K")
        /\ trace[i].kept
        /\ failure = CannotReassign("K")

\* C6: once const K has been declared in the global scope, the value bound to K
\* there is the same after every later run.
C6_ConstantsNeverChange ==
    [][\A n \in envs[1].constants : envs'[1].variables[n] = envs[1].variables[n]]_vars

----------------------------------------------------------------------------
(* Scopes in the evaluator: blocks, function bodies, loops and closures    *)
(* over the names x and y and the functions f, g and h.                    *)

\* fn f() { return x }
FnReadX == FunctionDeclaration("f", <<>>, Block(<<ReturnStatement(Identifier("x"))>>))
\* fn g() { x = 2 }
FnWriteX == FunctionDeclaration("g", <<>>, Block(<<Assignment(Identifier("x"), "=", Lit2)>>))
\* fn h() { let x = 1  fn f() { return x }  x = 2  return f() }
FnMakeClosure ==
    FunctionDeclaration("h", <<>>,
        Block(<<VariableDeclaration("x", Lit1, FALSE), FnReadX,
                Assignment(Identifier("x"), "=", Lit2),
                ReturnStatement(Call0("f"))>>))

\* let x = 1  fn f() { return x }  x = 2  f()
RebindThenCall ==
    Program(<<VariableDeclaration("x", Lit1, FALSE), FnReadX,
              Assignment(Identifier("x"), "=", Lit2), ExpressionStatement(Call0("f"))>>)

\* fn h() { ... }  h()
ClosureInFunction == Program(<<FnMakeClosure, ExpressionStatement(Call0("h"))>>)

\* the declarations of y a body makes: let y = 1, fn y() { }
YDecls == {VariableDeclaration("y", Lit1, FALSE), FunctionDeclaration("y", <<>>, Block(<<>>))}

\* fn g() { d }
FnDeclaring(d) == FunctionDeclaration("g", <<>>, Block(<<d>>))

\* if c { let y = 1 } [elif true { let y = 1 }] [else { let y = 1 }], if true { fn y() { } }
IfPool ==
    {IfStatement(BooleanLiteral(c), Block(<<VariableDeclaration("y", Lit1, FALSE)>>), el, els) :
        c \in BOOLEAN,
        el \in {<<>>, <<<<BooleanLiteral(TRUE), Block(<<VariableDeclaration("y", Lit1, FALSE)>>)>>>>},
        els \in {Absent, Block(<<VariableDeclaration("y", Lit1, FALSE)>>)}}
    \cup {IfStatement(BooleanLiteral(TRUE),
                      Block(<<FunctionDeclaration("y", <<>>, Block(<<>>))>>), <<>>, Absent)}

\* while true { d  break }
WhilePool == {WhileStatement(BooleanLiteral(TRUE), Block(<<d, BreakStatement>>)) : d \in YDecls}

\* { d }, { break }, { g() }, { let y = 1  z }
ForBodies ==
    {Block(<<d>>) : d \in YDecls}
    \cup {Block(<<BreakStatement>>),
          Block(<<ExpressionStatement(Call0("g"))>>),
          Block(<<VariableDeclaration("y", Lit1, FALSE), ExpressionStatement(Identifier("z"))>>)}

ForPool ==
    {ForStatement(v, ListLiteral(it), b) :
        v \in {"x", "y"}, it \in {<<>>, <<Lit0>>}, b \in ForBodies}

DeclareX == \E e \in {Lit1, Lit2} : InterpreterRun(One(VariableDeclaration("x", e, FALSE))) /\ UNCHANGED <<vvars, fvars>>

AssignX == \E e \in {Lit1, Lit2} : InterpreterRun(One(Assignment(Identifier("x"), "=", e))) /\ UNCHANGED <<vvars, fvars>>

DeclareWriter == InterpreterRun(One(FnWriteX)) /\ UNCHANGED <<vvars, fvars>>

DeclareFunction == \E d \in {FnReadX, FnWriteX} : InterpreterRun(One(d)) /\ UNCHANGED <<vvars, fvars>>

CallFunction == \E n \in {"f", "g"} : InterpreterRun(One(ExpressionStatement(Call0(n)))) /\ UNCHANGED <<vvars, fvars>>

RunClosureProgram == \E p \in {RebindThenCall, ClosureInFunction} : InterpreterRun(p) /\ UNCHANGED <<vvars, fvars>>

\* for x in [0] { f() }
CallInLoop ==
    InterpreterRun(One(ForStatement("x", ListLiteral(<<Lit0>>), Block(<<ExpressionStatement(Call0("f"))>>)))) /\ UNCHANGED <<vvars, fvars>>

RunIf == \E s \in IfPool : InterpreterRun(One(s)) /\ UNCHANGED <<vvars, fvars>>

RunWhile == \E s \in WhilePool : InterpreterRun(One(s)) /\ UNCHANGED <<vvars, fvars>>

RunFor == \E s \in ForPool : InterpreterRun(One(s)) /\ UNCHANGED <<vvars, fvars>>

CallDeclaring == \E d \in YDecls : InterpreterRun(Program(<<FnDeclaring(d), ExpressionStatement(Call0("g"))>>)) /\ UNCHANGED <<vvars, fvars>>

ReadName == \E n \in {"x", "y"} : InterpreterRun(One(ExpressionStatement(Identifier(n)))) /\ UNCHANGED <<vvars, fvars>>

ScopeNext ==
    \/ DeclareX
    \/ DeclareWriter
    \/ RunIf
    \/ RunWhile
    \/ RunFor
    \/ CallDeclaring
    \/ ReadName

ScopeSpec == Init /\ [][ScopeNext]_vars

ClosureNext ==
    \/ DeclareX
    \/ AssignX
    \/ DeclareFunction
    \/ CallFunction
    \/ RunClosureProgram
    \/ CallInLoop

ClosureSpec == Init /\ [][ClosureNext]_vars

\* names a block declares with let, const or fn
DeclaredNames(block) ==
    {block.statements[i].name :
        i \in {j \in 1..Len(block.statements) :
                  block.statements[j].k \in {"VariableDeclaration", "FunctionDeclaration"}}}

\* the bodies statement stmt runs: the blocks of an if or while, the body of
\* the function h binds to the name stmt calls
BodiesOf(stmt, h) ==
    IF stmt.k = "IfStatement"
    THEN {stmt.then_branch} \cup {stmt.elif_branches[i][2] : i \in 1..Len(stmt.elif_branches)}
         \cup (IF Present(stmt.else_branch) THEN {stmt.else_branch} ELSE {})
    ELSE IF stmt.k = "WhileStatement" THEN {stmt.body}
    ELSE IF /\ stmt.k = "ExpressionStatement"
            /\ stmt.expression.k = "FunctionCall"
            /\ stmt.expression.function.k = "Identifier"
            /\ stmt.expression.function.name \in DOMAIN h[1].variables
            /\ h[1].variables[stmt.expression.function.name].t = "fn"
    THEN {h[1].variables[stmt.expression.function.name].v.declaration.body}
    ELSE {}

\* C8: a name declared inside the body of an if, elif, else or while, or inside
\* the body of a called function, and not bound outside before, is not
\* resolvable in the enclosing scope once the statement has finished.
C8_ScopeContainment ==
    [][\A i \in 1..Len(last'.statements) :
         \A b \in BodiesOf(last'.statements[i], envs') :
           \A n \in DeclaredNames(b) :
             ~exists(envs, 1, n) => ~exists(envs', 1, n)]_vars

EndsWithCall(n) ==
    /\ Len(last.statements) > 0
    /\ last.statements[Len(last.statements)] = ExpressionStatement(Call0(n))

Declares(n, decl) ==
    /\ n \in DOMAIN envs[1].variables
    /\ envs[1].variables[n].t = "fn"
    /\ envs[1].variables[n].v.declaration = decl

\* C9: a call of f, declared in scope S as fn f() { return x }, returns the
\* value x has in S at the time of the call, whatever was assigned to or
\* re-declared as x after f's declaration and wherever f is called from; after
\* a call of g, declared in S as fn g() { x = 2 }, x is 2 in S.
C9_ClosuresSeeLiveScope ==
    /\ (failure = NoErr /\ EndsWithCall("f") /\ Declares("f", FnReadX))
          => result = envs[1].variables["x"]
    /\ (failure = NoErr /\ EndsWithCall("g") /\ Declares("g", FnWriteX))
          => envs[1].variables["x"] = IntV(2)
    /\ (failure = NoErr /\ last = ClosureInFunction) => result = IntV(2)
    /\ \A k \in 1..Len(trace) :
          (/\ trace[k].ev = "Call" /\ trace[k].name = "f" /\ trace[k].tag = "val"
           /\ trace[k].closure = 1 /\ trace[k].caller # 1)
              => trace[k].v = trace[k].scope_before["x"]

\* f was declared when x was 1, x was then assigned 2, and the call returned 2
C9_Witness ==
    /\ last = RebindThenCall /\ failure = NoErr /\ result = IntV(2)
    /\ trace[2].ev = "FunctionDeclaration" /\ trace[2].bindings["x"] = IntV(1)
    /\ trace[3].ev = "Assignment" /\ trace[3].tag = "val"
    /\ trace[4].ev = "Call" /\ trace[4].v = IntV(2)

IsFor(prog) == Len(prog.statements) = 1 /\ prog.statements[1].k = "ForStatement"

\* no assignment statement of the run resolved name to its binding in scope 1
NotAssignedOutside(tr, name) ==
    \A i \in 1..Len(tr) :
        ~(tr[i].ev = "Assignment" /\ tr[i].name = name /\ tr[i].binder = 1 /\ tr[i].tag = "val")

\* C10 (as amended): after `for v in iterable { body }` ends, by exhaustion,
\* break or a failure in the body, neither v nor a name the body declares is
\* bound in the enclosing scope unless it was before, and a binding of v that
\* was there before has its pre-loop value unless an assignment statement
\* executed by a function called from the loop resolved v to that outer binding.
C10_LoopScope ==
    [][IsFor(last') =>
         /\ \A n \in {last'.statements[1].variable} \cup DeclaredNames(last'.statements[1].body) :
              ~exists(envs, 1, n) => ~exists(envs', 1, n)
         /\ (/\ exists(envs, 1, last'.statements[1].variable)
             /\ NotAssignedOutside(trace', last'.statements[1].variable))
               => envs'[1].variables[last'.statements[1].variable]
                    = envs[1].variables[last'.statements[1].variable]]_vars

\* C10 as stated: a pre-existing outer binding of v always keeps its pre-loop value.
C10_OuterAlwaysKept ==
    [][IsFor(last') =>
         /\ \A n \in {last'.statements[1].variable} \cup DeclaredNames(last'.statements[1].body) :
              ~exists(envs, 1, n) => ~exists(envs', 1, n)
         /\ exists(envs, 1, last'.statements[1].variable)
               => envs'[1].variables[last'.statements[1].variable]
                    = envs[1].variables[last'.statements[1].variable]]_vars

\* `for x in [0] { let y = 1  z }` failed in its body; the outer x is still 1
\* and y is not bound
C10_Witness ==
    /\ last = One(ForStatement("x", ListLiteral(<<Lit0>>),
                     Block(<<VariableDeclaration("y", Lit1, FALSE),
                             ExpressionStatement(Identifier("z"))>>)))
    /\ failure = Err("RuntimeError", "Undefined variable", "z")
    /\ "x" \in DOMAIN envs[1].variables /\ envs[1].variables["x"] = IntV(1)
    /\ ~exists(envs, 1, "y")

----------------------------------------------------------------------------
(* Both backends fed the same programs: each Program is run by the         *)
(* evaluator and compiled and started on the machine, which then executes  *)
(* one instruction per step.  The machine is reused from run to run, as    *)
(* REPL.execute reuses self.vm.                                            *)

\* the start of VirtualMachine.run on the code Compiler.compile makes of prog
VMStart(prog) ==
    LET loaded(C) ==
            /\ ~C.error
            /\ program' = prog
            /\ code' = C.instructions
            /\ constants' = C.constants
            /\ pc' = 0
            /\ frames' = <<EmptyMap>>
            /\ vmstate' = "running"
            /\ vmfailure' = NoErr
            /\ vmout' = <<>>
            /\ nruns' = nruns + 1
            /\ UNCHANGED <<stack, globals>>
    IN  loaded(compile(prog))

\* one turn of the loop of VirtualMachine.run on an instruction of ops
Step(ops) ==
    /\ vmstate = "running"
    /\ pc < Len(code)
    /\ code[pc + 1].opcode \in ops
    /\ LET stepped(r) ==
               /\ r.status # "unmodelled"
               /\ Len(r.stack) <= MaxStack
               /\ stack' = r.stack
               /\ frames' = r.frames
               /\ globals' = r.globals
               /\ pc' = r.pc
               /\ vmout' = r.out
               /\ vmstate' = r.status
               /\ vmfailure' = r.e
       IN  stepped(execute_instruction(code[pc + 1],
                       [stack |-> stack, frames |-> frames, globals |-> globals,
                        pc |-> pc + 1, out |-> vmout, status |-> "running", e |-> NoErr],
                       constants))

\* fn f(a) { return a + 1 }
FnInc ==
    FunctionDeclaration("f", <<Parameter("a", Absent)>>,
        Block(<<ReturnStatement(BinaryOp(Identifier("a"), "+", Lit1))>>))

\* 1 + 2
SumProgram == One(ExpressionStatement(BinaryOp(Lit1, "+", Lit2)))

\* fn f(a) { return a + 1 }  let r = f(1)
CallProgram ==
    Program(<<FnInc, VariableDeclaration("r", FunctionCall(Identifier("f"), <<Lit1>>), FALSE)>>)

\* a and println(1), a or println(1) for a boolean literal a
ShortCircuitPrograms ==
    {One(ExpressionStatement(LogicalOp(BooleanLiteral(a), op, Say(Lit1)))) :
        a \in BOOLEAN, op \in {"and", "or"}}

\* let x = a and 2, let x = a or 2 for a in 0, 1
LogicalValuePrograms ==
    {One(VariableDeclaration("x", LogicalOp(a, op, Lit2), FALSE)) :
        a \in {Lit0, Lit1}, op \in {"and", "or"}}

\* [5, a and 2], [5, a or 2] for a in 0, 1: the logical expression is compiled
\* where the operand stack holds 5
LogicalElementPrograms ==
    {One(ExpressionStatement(ListLiteral(<<IntegerLiteral(5), LogicalOp(a, op, Lit2)>>))) :
        a \in {Lit0, Lit1}, op \in {"and", "or"}}

\* for v in [1] { println(v) }, for v in [1, 2] { println(v) }
ForPrograms ==
    {One(ForStatement("v", ListLiteral(xs), Block(<<ExpressionStatement(Say(Identifier("v")))>>))) :
        xs \in {<<Lit1>>, <<Lit1, Lit2>>}}

\* let y = 0  let x = n  if x == 1 { y = 1 } elif x == 2 { y = 2 } else { y = 3 }
IfProgram(n) ==
    Program(<<VariableDeclaration("y", Lit0, FALSE),
              VariableDeclaration("x", IntegerLiteral(n), FALSE),
              IfStatement(ComparisonOp(Identifier("x"), "==", Lit1),
                          Block(<<Assignment(Identifier("y"), "=", Lit1)>>),
                          <<<<ComparisonOp(Identifier("x"), "==", Lit2),
                              Block(<<Assignment(Identifier("y"), "=", Lit2)>>)>>>>,
                          Block(<<Assignment(Identifier("y"), "=", IntegerLiteral(3))>>))>>)
IfPrograms == {IfProgram(n) : n \in 1..3}

\* let m = {"k": 1}  let r = m.<member>
MemberProgram(member) ==
    Program(<<VariableDeclaration("m", MapLiteral(<<<<StringLiteral("k"), Lit1>>>>), FALSE),
              VariableDeclaration("r", MemberAccess(Identifier("m"), member), FALSE)>>)
MemberPrograms == {MemberProgram(member) : member \in {"k", "z"}}

\* x = 1 with x unbound
StoreUnboundProgram == One(Assignment(Identifier("x"), "=", Lit1))

\* const K = 1  K = 2   and   const K = 1  K += 2
StoreConstPrograms ==
    {Program(<<VariableDeclaration("K", Lit1, TRUE), Assignment(Identifier("K"), op, e)>>) :
        op \in {"=", "+="}, e \in {Lit2}}

OtherPrograms ==
    {One(VariableDeclaration("x", Lit1, FALSE)),
     Program(<<VariableDeclaration("x", Lit1, FALSE), Assignment(Identifier("x"), "=", Lit2)>>),
     Program(<<FnInc, ExpressionStatement(FunctionCall(Identifier("f"), <<Lit2>>))>>),
     One(ExpressionStatement(Say(Lit1))),
     One(ReturnStatement(Lit1)),
     One(IfStatement(BooleanLiteral(TRUE), Block(<<VariableDeclaration("y", Lit1, FALSE)>>),
                     <<>>, Absent)),
     Program(<<VariableDeclaration("x", Lit0, FALSE),
               WhileStatement(ComparisonOp(Identifier("x"), "<", Lit2),
                              Block(<<Assignment(Identifier("x"), "+=", Lit1)>>))>>),
     One(ExpressionStatement(ListLiteral(<<Lit1, Lit2>>)))}

\* break / continue / return 1 / return, at top level, then println(1)
OutOfContextPrograms ==
    {Program(<<s, ExpressionStatement(Say(Lit1))>>) :
        s \in {BreakStatement, ContinueStatement, ReturnStatement(Lit1), ReturnStatement(Absent)}}

VMPool ==
    {SumProgram, CallProgram, StoreUnboundProgram} \cup ShortCircuitPrograms
    \cup LogicalValuePrograms \cup LogicalElementPrograms \cup StoreConstPrograms
    \cup ForPrograms \cup IfPrograms \cup MemberPrograms \cup OtherPrograms
    \cup OutOfContextPrograms

\* the same Program is handed to Interpreter.run and, compiled, to VirtualMachine.run
Submit ==
    /\ vmstate # "running"
    /\ nruns < MaxRuns
    /\ \E prog \in VMPool : InterpreterRun(prog) /\ VMStart(prog)
    /\ UNCHANGED fvars

StepStack ==
    /\ Step({"PUSH", "POP", "LOAD_CONST"})
    /\ UNCHANGED <<ivars, fvars, program, code, constants, nruns>>
StepArithmetic ==
    /\ Step({"ADD", "SUB", "MUL", "DIV", "MOD", "POW", "NEG"})
    /\ UNCHANGED <<ivars, fvars, program, code, constants, nruns>>
StepComparison ==
    /\ Step({"EQ", "NE", "LT", "GT", "LE", "GE", "NOT"})
    /\ UNCHANGED <<ivars, fvars, program, code, constants, nruns>>
StepVariable ==
    /\ Step({"LOAD", "STORE", "DEFINE"})
    /\ UNCHANGED <<ivars, fvars, program, code, constants, nruns>>
StepJump ==
    /\ Step({"JUMP", "JUMP_IF_FALSE", "JUMP_IF_TRUE"})
    /\ UNCHANGED <<ivars, fvars, program, code, constants, nruns>>
StepCall ==
    /\ Step({"CALL"})
    /\ UNCHANGED <<ivars, fvars, program, code, constants, nruns>>
StepReturn ==
    /\ Step({"RETURN"})
    /\ UNCHANGED <<ivars, fvars, program, code, constants, nruns>>
StepCollection ==
    /\ Step({"BUILD_LIST", "BUILD_MAP", "GET_ATTR"})
    /\ UNCHANGED <<ivars, fvars, program, code, constants, nruns>>
StepHalt ==
    /\ Step({"HALT"})
    /\ UNCHANGED <<ivars, fvars, program, code, constants, nruns>>

VMNext ==
    \/ Submit
    \/ StepStack
    \/ StepArithmetic
    \/ StepComparison
    \/ StepVariable
    \/ StepJump
    \/ StepCall
    \/ StepReturn
    \/ StepCollection
    \/ StepHalt

VMSpec == Init /\ [][VMNext]_vars

\* VirtualMachine.run has returned or raised
VMFinished == vmstate \in {"halted", "failed"}

\* what VirtualMachine.run returns: self.peek()
VMResult == peek(stack)

----------------------------------------------------------------------------
(* The evaluator and the virtual machine on the same tree *)

\* C1: whenever Interpreter.run and VirtualMachine.run both return for the
\* same program, they return the same value
C1_SameFinalValue ==
    (vmstate = "halted" /\ failure = NoErr) => VMResult = result

\* C2: the run of `fn f(a) { return a + 1 }  let r = f(1)` ends by halting,
\* with the frame stack back at the depth it had before the call and r bound
\* to 2, the value the evaluator binds r to
C2_CallReturnsToCaller ==
    (VMFinished /\ program = CallProgram) =>
        /\ vmstate = "halted"
        /\ Len(frames) = 1
        /\ "r" \in DOMAIN frames[1]
        /\ frames[1]["r"] = IntV(2)
        /\ envs[1].variables["r"] = IntV(2)

\* C13: in both backends a break or continue with no enclosing loop, and a
\* return at top level, ends the run with a failure and the statement after
\* it is not executed: once both backends are done with such a statement
\* followed by println(1), each has failed and printed nothing
C13_OutOfContextFails ==
    (VMFinished /\ program \in OutOfContextPrograms) =>
        /\ failure # NoErr
        /\ out = <<>>
        /\ vmstate = "failed"
        /\ vmout = <<>>

\* the output of `a and println(1)` / `a or println(1)` when println(1) is
\* evaluated exactly when the result depends on it
ExpectedOutput(prog) ==
    LET e == prog.statements[1].expression
    IN  IF (e.operator = "and") = e.left.value
        THEN <<[fn |-> "println", args |-> <<IntV(1)>>]>>
        ELSE <<>>

\* C3: in both backends the right operand of `a and b` is evaluated exactly
\* when a is truthy, and that of `a or b` exactly when a is falsy: once both
\* backends are done with `a and println(1)` or `a or println(1)`, each has
\* printed 1 once if the operand was due and nothing otherwise
C3_ShortCircuit ==
    (VMFinished /\ program \in ShortCircuitPrograms) =>
        /\ out = ExpectedOutput(program)
        /\ vmout = ExpectedOutput(program)

\* the deciding operand of the integer-literal expression `a and b` / `a or b`
DecidingOperand(e) ==
    IF (e.operator = "and") = is_truthy(IntV(e.left.value))
    THEN IntV(e.right.value)
    ELSE IntV(e.left.value)

\* C4: in both backends `a and b` is a when a is falsy and b otherwise, and
\* `a or b` is a when a is truthy and b otherwise: once both backends are done
\* with `let x = a and 2` or `let x = a or 2`, each has bound x to that operand
C4_DecidingOperand ==
    (VMFinished /\ program \in LogicalValuePrograms) =>
        /\ envs[1].variables["x"] = DecidingOperand(program.statements[1].value)
        /\ "x" \in DOMAIN frames[1]
        /\ frames[1]["x"] = DecidingOperand(program.statements[1].value)

\* C7: in the virtual machine an assignment to a name with no binding, or to a
\* name declared with const, fails and creates or changes no binding: the run
\* of `x = 1` fails leaving x unbound, and the runs of `const K = 1  K = 2`
\* and `const K = 1  K += 2` fail leaving K at 1
C7_StoreFailures ==
    /\ (VMFinished /\ program = StoreUnboundProgram) =>
           vmstate = "failed" /\ "x" \notin DOMAIN frames[1]
    /\ (VMFinished /\ program \in StoreConstPrograms) =>
           vmstate = "failed" /\ frames[1]["K"] = IntV(1)

----------------------------------------------------------------------------
(* The event log: `event` declarations and `emit` statements on one        *)
(* Interpreter.                                                            *)

\* longest log kept under one event name
MaxLog == 2

EventNames == {"E", "F"}

\* emit arguments: none, two literals, two printing calls, an undefined name
EmitArgs == {<<>>, <<Lit1, Lit2>>, <<Say(Lit1), Say(Lit2)>>, <<Identifier("y")>>}

\* for v in [1, 2] { emit E(v) }
EmitLoop ==
    One(ForStatement("v", ListLiteral(<<Lit1, Lit2>>),
                     Block(<<EmitStatement("E", <<Identifier("v")>>)>>)))

LogFits(ev) == \A n \in DOMAIN ev : Len(ev[n]) <= MaxLog

DeclareEvent ==
    \E n \in EventNames : InterpreterRun(One(EventDeclaration(n, <<>>))) /\ UNCHANGED <<vvars, fvars>>

Emit ==
    \E n \in EventNames, a \in EmitArgs :
        InterpreterRun(One(EmitStatement(n, a))) /\ LogFits(events') /\ UNCHANGED <<vvars, fvars>>

EmitInLoop == InterpreterRun(EmitLoop) /\ LogFits(events') /\ UNCHANGED <<vvars, fvars>>

EventNext ==
    \/ DeclareEvent
    \/ Emit
    \/ EmitInLoop

EventSpec == Init /\ [][EventNext]_vars

IsPrefix(s, t) == Len(s) <= Len(t) /\ SubSeq(t, 1, Len(s)) = s

\* C11: the list stored under an event name at one point is a prefix of the
\* list stored under it at every later point: no step of the interpreter
\* removes the key, or removes or replaces an entry
C11_AppendOnly ==
    [][\A n \in DOMAIN events :
           n \in DOMAIN events' /\ IsPrefix(events[n], events'[n])]_vars

\* the run was the single statement emit E(args) and it completed
IsEmit(prog) == Len(prog.statements) = 1 /\ prog.statements[1].k = "EmitStatement"

\* the values of emit arguments that are integer literals or println calls
ArgValues(as) ==
    [i \in 1..Len(as) |-> IF as[i].k = "IntegerLiteral" THEN IntV(as[i].value) ELSE None]

\* what println calls among the arguments print, in argument order
ArgPrints(as) ==
    LET says == SelectSeq(as, LAMBDA a : a.k = "FunctionCall")
    IN  [i \in 1..Len(says) |->
            [fn |-> "println", args |-> <<IntV(says[i].arguments[1].value)>>]]

\* C12: a completed `emit E(args)` appends exactly one entry, the argument
\* values evaluated left to right, at the end of the log under E (creating the
\* key when absent) and changes the log under no other key; the entries of
\* `for v in [1, 2] { emit E(v) }` are appended in emission order
C12_EmitAppendsOne ==
    [][/\ (IsEmit(last') /\ failure' = NoErr) =>
              LET e == last'.statements[1]
              IN  /\ events' = Put(events, e.event_name,
                                   Append(LogOf(events, e.event_name),
                                          ArgValues(e.arguments)))
                  /\ out' = ArgPrints(e.arguments)
                            \o <<EventLine(e.event_name, ArgValues(e.arguments))>>
       /\ (last' = EmitLoop /\ failure' = NoErr) =>
              events' = Put(events, "E",
                            LogOf(events, "E") \o << <<IntV(1)>>, <<IntV(2)>> >>)]_vars

\* an emit of two printing arguments has just added the second entry under E
\* while F holds an entry of its own
C12_Witness ==
    /\ last = One(EmitStatement("E", <<Say(Lit1), Say(Lit2)>>))
    /\ failure = NoErr
    /\ "E" \in DOMAIN events /\ Len(events["E"]) = 2
    /\ "F" \in DOMAIN events /\ Len(events["F"]) = 1

----------------------------------------------------------------------------
(* Nested loops in the evaluator.  An outer loop of two iterations holds an *)
(* inner loop over 0, 1, 2 whose body prints the inner variable, signals    *)
(* (break or continue) when the variable equals `at`, and prints none; the  *)
(* outer body then prints true.                                            *)

Lit(n) == IntegerLiteral(n)
Neg1 == UnaryOp("-", Lit1)
SayName(v) == ExpressionStatement(Say(Identifier(v)))
SayNone == ExpressionStatement(Say(NullLiteral))
SayTrue == ExpressionStatement(Say(BooleanLiteral(TRUE)))
SayFalse == ExpressionStatement(Say(BooleanLiteral(FALSE)))
SignalStatement(sig) == IF sig = "break" THEN BreakStatement ELSE ContinueStatement

\* the statements of a loop of variable v over 0 .. n-1 with the given body:
\* `for v in [0, ..] { body }` or `let v = -1  while v < n-1 { v += 1  body }`
LoopOver(kind, v, n, body) ==
    IF kind = "for"
    THEN <<ForStatement(v, ListLiteral([i \in 1..n |-> Lit(i - 1)]), Block(body))>>
    ELSE <<VariableDeclaration(v, Neg1, FALSE),
           WhileStatement(ComparisonOp(Identifier(v), "<", Lit(n - 1)),
                          Block(<<Assignment(Identifier(v), "+=", Lit1)>> \o body))>>

\* if v == at { sig }
SignalAt(v, at, sig) ==
    IfStatement(ComparisonOp(Identifier(v), "==", Lit(at)),
                Block(<<SignalStatement(sig)>>), <<>>, Absent)

\* the inner loop: println(j)  if j == at { sig }  println(none)
InnerLoop(kind, at, sig) ==
    LoopOver(kind, "j", 3, <<SayName("j"), SignalAt("j", at, sig), SayNone>>)

NestedParams ==
    [outer : {"for", "while"}, inner : {"for", "while"}, sig : {"break", "continue"},
     at : {0, 1}, deep : BOOLEAN]

\* the signal inside the inner loop; deep wraps the nest in `for k in [0] { }`
NestedProgram(p) ==
    LET nest == LoopOver(p.outer, "i", 2, InnerLoop(p.inner, p.at, p.sig) \o <<SayTrue>>)
    IN  IF p.deep THEN Program(LoopOver("for", "k", 1, nest)) ELSE Program(nest)

OuterParams == [outer : {"for", "while"}, inner : {"for", "while"}, sig : {"break", "continue"}]

\* the signal in the outer body, after the inner loop:
\* inner loop without signal, println(true), sig, println(false)
OuterSignalProgram(p) ==
    Program(LoopOver(p.outer, "i", 2,
                LoopOver(p.inner, "j", 3, <<SayName("j"), SayNone>>)
                \o <<SayTrue, SignalStatement(p.sig), SayFalse>>))

RunNested ==
    \E p \in NestedParams : InterpreterRun(NestedProgram(p)) /\ UNCHANGED <<vvars, fvars>>

RunOuterSignal ==
    \E p \in OuterParams : InterpreterRun(OuterSignalProgram(p)) /\ UNCHANGED <<vvars, fvars>>

LoopNext ==
    \/ RunNested
    \/ RunOuterSignal

LoopSpec == Init /\ [][LoopNext]_vars

Printed(v) == [fn |-> "println", args |-> <<v>>]

\* what one run of the inner loop prints from iteration j on
RECURSIVE InnerPrints(_, _, _)
InnerPrints(j, at, sig) ==
    IF j > 2 THEN <<>>
    ELSE IF j # at THEN <<Printed(IntV(j)), Printed(None)>> \o InnerPrints(j + 1, at, sig)
    ELSE IF sig = "break" THEN <<Printed(IntV(j))>>
    ELSE <<Printed(IntV(j))>> \o InnerPrints(j + 1, at, sig)

\* a signal in the inner loop: each of the two outer iterations prints what
\* the inner loop prints and then true
NestedPrints(p) ==
    LET once == InnerPrints(0, p.at, p.sig) \o <<Printed(BoolV(TRUE))>>
    IN  once \o once

\* a signal in the outer body: break ends the outer loop after its first
\* iteration, continue skips println(false) in both
OuterSignalPrints(p) ==
    LET once == InnerPrints(0, 3, "break") \o <<Printed(BoolV(TRUE))>>
    IN  IF p.sig = "break" THEN once ELSE once \o once

\* C14: a break ends exactly the innermost enclosing loop and a continue
\* abandons only the rest of the current iteration of the innermost loop, the
\* enclosing loop going on with its next iteration: every run of a nest of
\* for/while loops, two or three deep, completes and prints exactly what
\* those rules give
C14_InnermostLoop ==
    /\ \A p \in NestedParams :
           last = NestedProgram(p) => failure = NoErr /\ out = NestedPrints(p)
    /\ \A p \in OuterParams :
           last = OuterSignalProgram(p) => failure = NoErr /\ out = OuterSignalPrints(p)

\* a break in a while loop inside a for loop inside a for loop has run
C14_Witness ==
    /\ last = NestedProgram([outer |-> "for", inner |-> "while", sig |-> "break",
                             at |-> 1, deep |-> TRUE])
    /\ Len(out) = 8

----------------------------------------------------------------------------
(* Default parameter values: f declares `a = y` at top level and is called *)
(* without arguments from the top level and from a function g whose own    *)
(* scope binds y.                                                          *)

\* fn f(a = y) { return a }
FnDefaultY ==
    FunctionDeclaration("f", <<Parameter("a", Identifier("y"))>>,
        Block(<<ReturnStatement(Identifier("a"))>>))

\* fn g() { let y = e  return f() }
FnCallerBindingY(e) ==
    FunctionDeclaration("g", <<>>,
        Block(<<VariableDeclaration("y", e, FALSE), ReturnStatement(Call0("f"))>>))

\* let r = g()
CallThroughG == One(VariableDeclaration("r", Call0("g"), FALSE))

\* let r = f()
CallDirect == One(VariableDeclaration("r", Call0("f"), FALSE))

DeclareY ==
    \E e \in {Lit0, Lit1, Lit2} :
        InterpreterRun(One(VariableDeclaration("y", e, FALSE))) /\ UNCHANGED <<vvars, fvars>>

DeclareDefaulted == InterpreterRun(One(FnDefaultY)) /\ UNCHANGED <<vvars, fvars>>

DeclareCaller ==
    \E e \in {Lit0, Lit1, Lit2} : InterpreterRun(One(FnCallerBindingY(e))) /\ UNCHANGED <<vvars, fvars>>

CallWithDefault ==
    \E p \in {CallThroughG, CallDirect} : InterpreterRun(p) /\ UNCHANGED <<vvars, fvars>>

CallWithArgument ==
    \E e \in {Lit0, Lit1} :
        InterpreterRun(One(VariableDeclaration("r", FunctionCall(Identifier("f"), <<e>>), FALSE)))
        /\ UNCHANGED <<vvars, fvars>>

DefaultNext ==
    \/ DeclareY
    \/ DeclareDefaulted
    \/ DeclareCaller
    \/ CallWithDefault
    \/ CallWithArgument

DefaultSpec == Init /\ [][DefaultNext]_vars

\* f is the function declared by FnDefaultY at top level
DefaultedAtTopLevel ==
    /\ "f" \in DOMAIN envs[1].variables
    /\ envs[1].variables["f"] = FnV(FnDefaultY, 1)

\* C15: a missing parameter's default expression is evaluated in the scope
\* where the function was declared, not in the caller's: when `let r = g()`
\* or `let r = f()` has completed, f being declared at top level with the
\* default `a = y`, the top level binds y and r is the top level's y
C15_DefaultsInDefiningScope ==
    (last \in {CallThroughG, CallDirect} /\ failure = NoErr /\ DefaultedAtTopLevel) =>
        /\ "y" \in DOMAIN envs[1].variables
        /\ envs[1].variables["r"] = envs[1].variables["y"]

----------------------------------------------------------------------------
(* Lexer (lexer.py).  Source text is a sequence of one-character strings;   *)
(* the lexer's position is L = [pos, line, column], pos counted from 0.     *)
(* A token is [type, value, line, column], type being the TokenType name.   *)

\* longest source text handed to the lexer
MaxSource == 80

Digits == {"0", "1", "2", "3", "4", "5", "6", "7", "8", "9"}
Lower == {"a", "b", "c", "d", "e", "f", "g", "h", "i", "j", "k", "l", "m",
          "n", "o", "p", "q", "r", "s", "t", "u", "v", "w", "x", "y", "z"}
Upper == {"A", "B", "C", "D", "E", "F", "G", "H", "I", "J", "K", "L", "M",
          "N", "O", "P", "Q", "R", "S", "T", "U", "V", "W", "X", "Y", "Z"}
\* str.isdigit, str.isalpha, str.isalnum on the characters of the model
isdigit(c) == c \in Digits
isalpha(c) == c \in Lower \cup Upper
isalnum(c) == isalpha(c) \/ isdigit(c)

\* tokens.py: Token
Token(type, value, line, column) ==
    [type |-> type, value |-> value, line |-> line, column |-> column]

\* tokens.py: KEYWORDS
KEYWORDS ==
    [w \in {"if", "else", "elif", "while", "for", "in", "break", "continue", "return",
            "let", "const", "fn", "async", "await", "contract", "struct", "enum", "impl",
            "int", "float", "string", "bool", "void", "list", "map",
            "true", "false", "none", "and", "or", "not", "emit", "event"} |->
        CASE w = "int" -> "TYPE_INT"
          [] w = "float" -> "TYPE_FLOAT"
          [] w = "string" -> "TYPE_STRING"
          [] w = "bool" -> "TYPE_BOOL"
          [] w = "void" -> "TYPE_VOID"
          [] w = "list" -> "TYPE_LIST"
          [] w = "map" -> "TYPE_MAP"
          [] w = "if" -> "IF"
          [] w = "else" -> "ELSE"
          [] w = "elif" -> "ELIF"
          [] w = "while" -> "WHILE"
          [] w = "for" -> "FOR"
          [] w = "in" -> "IN"
          [] w = "break" -> "BREAK"
          [] w = "continue" -> "CONTINUE"
          [] w = "return" -> "RETURN"
          [] w = "let" -> "LET"
          [] w = "const" -> "CONST"
          [] w = "fn" -> "FN"
          [] w = "async" -> "ASYNC"
          [] w = "await" -> "AWAIT"
          [] w = "contract" -> "CONTRACT"
          [] w = "struct" -> "STRUCT"
          [] w = "enum" -> "ENUM"
          [] w = "impl" -> "IMPL"
          [] w = "true" -> "TRUE"
          [] w = "false" -> "FALSE"
          [] w = "none" -> "NONE"
          [] w = "and" -> "AND"
          [] w = "or" -> "OR"
          [] w = "not" -> "NOT"
          [] w = "emit" -> "EMIT"
          [] w = "event" -> "EVENT"]

\* LexerError(message, line, column); name is the part of the message that varies
LexerError(what, name, line, column) ==
    Diag("Lexer Error", Err("LexerError", what, name), line, column)

\* Lexer.current_char / Lexer.peek; NoChar is Python's None
NoChar == ""
char_at(src, pos) == IF pos >= Len(src) THEN NoChar ELSE src[pos + 1]

\* Lexer.advance
advance_char(src, L) ==
    IF char_at(src, L.pos) = "\n"
    THEN [pos |-> L.pos + 1, line |-> L.line + 1, column |-> 1]
    ELSE [pos |-> L.pos + 1, line |-> L.line, column |-> L.column + 1]

\* Lexer.skip_whitespace
RECURSIVE skip_whitespace(_, _)
skip_whitespace(src, L) ==
    IF char_at(src, L.pos) \in {" ", "\t", "\r"} THEN skip_whitespace(src, advance_char(src, L))
    ELSE L

\* the // branch of Lexer.skip_comment
RECURSIVE skip_line_comment(_, _)
skip_line_comment(src, L) ==
    IF char_at(src, L.pos) \notin {NoChar, "\n"} THEN skip_line_comment(src, advance_char(src, L))
    ELSE L

\* the /* branch of Lexer.skip_comment, after the opening two characters
RECURSIVE skip_block_comment(_, _)
skip_block_comment(src, L) ==
    IF char_at(src, L.pos) = NoChar THEN L
    ELSE IF char_at(src, L.pos) = "*" /\ char_at(src, L.pos + 1) = "/"
    THEN advance_char(src, advance_char(src, L))
    ELSE skip_block_comment(src, advance_char(src, L))

\* Lexer.skip_comment
skip_comment(src, L) ==
    IF char_at(src, L.pos + 1) = "/" THEN skip_line_comment(src, L)
    ELSE skip_block_comment(src, advance_char(src, advance_char(src, L)))

\* ''.join(result)
RECURSIVE join(_)
join(chars) == IF chars = <<>> THEN "" ELSE Head(chars) \o join(Tail(chars))

DigitValue(c) ==
    CASE c = "0" -> 0 [] c = "1" -> 1 [] c = "2" -> 2 [] c = "3" -> 3 [] c = "4" -> 4
      [] c = "5" -> 5 [] c = "6" -> 6 [] c = "7" -> 7 [] c = "8" -> 8 [] c = "9" -> 9

\* int(value_str) on a string of digits
RECURSIVE int_of(_)
int_of(chars) ==
    IF chars = <<>> THEN 0 ELSE 10 * int_of(SubSeq(chars, 1, Len(chars) - 1))
                                 + DigitValue(chars[Len(chars)])

\* the position after the characters of class(_) starting at pos
RECURSIVE scan_digits(_, _)
scan_digits(src, pos) == IF isdigit(char_at(src, pos)) THEN scan_digits(src, pos + 1) ELSE pos

RECURSIVE scan_word(_, _)
scan_word(src, pos) ==
    IF isalnum(char_at(src, pos)) \/ char_at(src, pos) = "_" THEN scan_word(src, pos + 1)
    ELSE pos

\* the lexer after the characters up to position to, none of them a newline
moved(L, to) == [pos |-> to, line |-> L.line, column |-> L.column + (to - L.pos)]

\* what one of the readers returns: the token and the lexer after it
Lexed(token, L) == [tag |-> "ok", token |-> token, L |-> L, e |-> NoDiag]
LexFail(e) == [tag |-> "err", token |-> Token("EOF", "", 0, 0), L |-> [pos |-> 0, line |-> 0, column |-> 0], e |-> e]
LexUnmodelled == [LexFail(NoDiag) EXCEPT !.tag = "unmodelled"]

\* Lexer.read_number; a literal with a fraction is a float, which the
\* model's trees do not contain
read_number(src, L) ==
    LET to == scan_digits(src, L.pos)
    IN  IF char_at(src, to) = "." /\ isdigit(char_at(src, to + 1)) THEN LexUnmodelled
        ELSE Lexed(Token("INTEGER", int_of(SubSeq(src, L.pos + 1, to)), L.line, L.column),
                   moved(L, to))

\* Lexer.read_identifier
read_identifier(src, L) ==
    LET to == scan_word(src, L.pos)
        value == join(SubSeq(src, L.pos + 1, to))
    IN  IF value \in DOMAIN KEYWORDS
        THEN CASE KEYWORDS[value] = "TRUE" -> Lexed(Token("TRUE", TRUE, L.line, L.column), moved(L, to))
               [] KEYWORDS[value] = "FALSE" -> Lexed(Token("FALSE", FALSE, L.line, L.column), moved(L, to))
               [] KEYWORDS[value] = "NONE" -> Lexed(Token("NULL", "None", L.line, L.column), moved(L, to))
               [] OTHER -> Lexed(Token(KEYWORDS[value], value, L.line, L.column), moved(L, to))
        ELSE Lexed(Token("IDENTIFIER", value, L.line, L.column), moved(L, to))

\* escape_chars of Lexer.read_string; a character outside it stands for itself
escape_chars(c) ==
    CASE c = "n" -> "\n"
      [] c = "t" -> "\t"
      [] c = "r" -> "\r"
      [] OTHER -> c

\* the while loop of Lexer.read_string: the lexer at the closing quote or at the
\* end of the text, and the characters read on the way
RECURSIVE string_body(_, _, _, _)
string_body(src, L, quote_char, read) ==
    IF char_at(src, L.pos) \in {NoChar, quote_char} THEN [L |-> L, result |-> read]
    ELSE IF char_at(src, L.pos) = "\\"
    THEN string_body(src, advance_char(src, advance_char(src, L)), quote_char,
                     read \o escape_chars(char_at(src, L.pos + 1)))
    ELSE string_body(src, advance_char(src, L), quote_char, read \o char_at(src, L.pos))

\* the end of a read_string that reports where the text ended
string_read_at_end(src, B, start_line, start_col) ==
    IF char_at(src, B.L.pos) = NoChar
    THEN LexFail(LexerError("Unterminated string literal", "", B.L.line, B.L.column))
    ELSE Lexed(Token("STRING", B.result, start_line, start_col), advance_char(src, B.L))

\* the end of Lexer.read_string, B the lexer and the characters after the loop
string_read(src, B, start_line, start_col) ==
    IF char_at(src, B.L.pos) = NoChar
    THEN LexFail(LexerError("Unterminated string literal", "", start_line, start_col))
    ELSE Lexed(Token("STRING", B.result, start_line, start_col), advance_char(src, B.L))

\* Lexer.read_string
read_string(src, L) ==
    string_read(src, string_body(src, advance_char(src, L), char_at(src, L.pos), ""),
                L.line, L.column)

two_char_ops ==
    [op \in {"==", "!=", "<=", ">=", "+=", "-=", "*=", "/=", "**", "->", "=>", "<<", ">>"} |->
        CASE op = "==" -> "EQUAL"
          [] op = "!=" -> "NOT_EQUAL"
          [] op = "<=" -> "LESS_EQUAL"
          [] op = ">=" -> "GREATER_EQUAL"
          [] op = "+=" -> "PLUS_ASSIGN"
          [] op = "-=" -> "MINUS_ASSIGN"
          [] op = "*=" -> "MULTIPLY_ASSIGN"
          [] op = "/=" -> "DIVIDE_ASSIGN"
          [] op = "**" -> "POWER"
          [] op = "->" -> "ARROW"
          [] op = "=>" -> "FAT_ARROW"
          [] op = "<<" -> "LEFT_SHIFT"
          [] op = ">>" -> "RIGHT_SHIFT"]

single_char_ops ==
    [op \in {"+", "-", "*", "/", "%", "<", ">", "=", "&", "|", "^", "~", "(", ")",
             "[", "]", "{", "}", ",", ".", ":", ";"} |->
        CASE op = "+" -> "PLUS"
          [] op = "-" -> "MINUS"
          [] op = "*" -> "MULTIPLY"
          [] op = "/" -> "DIVIDE"
          [] op = "%" -> "MODULO"
          [] op = "<" -> "LESS"
          [] op = ">" -> "GREATER"
          [] op = "=" -> "ASSIGN"
          [] op = "&" -> "BIT_AND"
          [] op = "|" -> "BIT_OR"
          [] op = "^" -> "BIT_XOR"
          [] op = "~" -> "BIT_NOT"
          [] op = "(" -> "LPAREN"
          [] op = ")" -> "RPAREN"
          [] op = "[" -> "LBRACKET"
          [] op = "]" -> "RBRACKET"
          [] op = "{" -> "LBRACE"
          [] op = "}" -> "RBRACE"
          [] op = "," -> "COMMA"
          [] op = "." -> "DOT"
          [] op = ":" -> "COLON"
          [] op = ";" -> "SEMICOLON"]

\* Lexer._read_operator_or_delimiter; tag "none" is its `return None`
read_operator_or_delimiter(src, L) ==
    LET char == char_at(src, L.pos)
        next_char == char_at(src, L.pos + 1)
    IN  IF next_char # NoChar /\ (char \o next_char) \in DOMAIN two_char_ops
        THEN Lexed(Token(two_char_ops[char \o next_char], char \o next_char, L.line, L.column),
                   advance_char(src, advance_char(src, L)))
        ELSE IF char \in DOMAIN single_char_ops
        THEN Lexed(Token(single_char_ops[char], char, L.line, L.column), advance_char(src, L))
        ELSE [LexFail(NoDiag) EXCEPT !.tag = "none"]

\* one turn of the loop of Lexer.tokenize that reads a token
read_token(src, L) ==
    LET c == char_at(src, L.pos)
    IN  IF c \in {"\"", "'"} THEN read_string(src, L)
        ELSE IF isdigit(c) THEN read_number(src, L)
        ELSE IF isalpha(c) \/ c = "_" THEN read_identifier(src, L)
        ELSE read_operator_or_delimiter(src, L)

\* one turn of the loop of Lexer.tokenize; X is [tag, tokens, e, L] with
\* tokens being self.tokens, L the position, and tag "more" while the loop
\* runs, then "ok", "err" (LexerError e) or "unmodelled"
tokenize_turn(src, X) ==
    LET c == char_at(src, X.L.pos)
        appended(r) ==
            IF r.tag = "ok" THEN [X EXCEPT !.L = r.L, !.tokens = Append(@, r.token)]
            ELSE IF r.tag = "none"
            THEN [X EXCEPT !.tag = "err",
                           !.e = LexerError("Unexpected character", c, X.L.line, X.L.column)]
            ELSE [X EXCEPT !.tag = r.tag, !.e = r.e]
    IN  IF X.tag # "more" THEN X
        ELSE IF c = NoChar
        THEN [X EXCEPT !.tag = "ok",
                       !.tokens = Append(@, Token("EOF", "None", X.L.line, X.L.column))]
        ELSE IF c \in {" ", "\t", "\r"} THEN [X EXCEPT !.L = skip_whitespace(src, X.L)]
        ELSE IF c = "\n"
        THEN [X EXCEPT !.L = advance_char(src, X.L),
                       !.tokens = Append(@, Token("NEWLINE", "\n", X.L.line, X.L.column))]
        ELSE IF c = "/" /\ char_at(src, X.L.pos + 1) \in {"/", "*"}
        THEN [X EXCEPT !.L = skip_comment(src, X.L)]
        ELSE appended(read_token(src, X.L))

\* up to `turns` turns of the loop of Lexer.tokenize, taken half and half
RECURSIVE tokenize_loop(_, _, _)
tokenize_loop(src, X, turns) ==
    IF X.tag # "more" THEN X
    ELSE IF turns <= 1 THEN tokenize_turn(src, X)
    ELSE tokenize_loop(src, tokenize_loop(src, X, turns \div 2), turns - turns \div 2)

\* Lexer(source).tokenize(): every turn but the last moves on by a character
\* at least; the result is [tag, tokens, e]
tokenize(src) ==
    LET left(X) == [tag |-> X.tag, tokens |-> X.tokens, e |-> X.e]
    IN  left(tokenize_loop(src, [tag |-> "more", tokens |-> <<>>, e |-> NoDiag,
                                 L |-> [pos |-> 0, line |-> 1, column |-> 1]],
                           Len(src) + 1))

----------------------------------------------------------------------------
(* Parser (parser.py).  T is Parser.tokens and pos Parser.pos; a parsing    *)
(* method returns [tag, pos, node, e]: the parser's position after it and   *)
(* the node it built, or the ParserError e it raised (tag "err").  Async    *)
(* functions, contracts, method calls and float literals are outside the    *)
(* model's trees (tag "unmodelled").                                        *)

\* nodes the parser builds that no other section constructs
IndexAccess(o, i) == [k |-> "IndexAccess", object |-> o, index |-> i]
\* fields is a sequence of <<name, type>>; the parser passes no methods
StructDeclaration(name, fields) ==
    [k |-> "StructDeclaration", name |-> name, fields |-> fields, methods |-> <<>>]
EnumDeclaration(name, variants) == [k |-> "EnumDeclaration", name |-> name, variants |-> variants]
ImplBlock(type_name, methods) == [k |-> "ImplBlock", type_name |-> type_name, methods |-> methods]

\* ParserError(message, token); name is the part of the message that varies
ParserError(what, name, token) ==
    Diag("Parser Error", Err("ParserError", what, name), token.line, token.column)

POk(pos, node) == [tag |-> "ok", pos |-> pos, node |-> node, e |-> NoDiag]
PFail(e) == [tag |-> "err", pos |-> 0, node |-> Absent, e |-> e]
PUnmodelled == [tag |-> "unmodelled", pos |-> 0, node |-> Absent, e |-> NoDiag]
\* the method never returns: a loop of it repeats a turn at position pos that
\* leaves the parser as it found it
PLoops(pos) == [tag |-> "loops", pos |-> pos, node |-> Absent, e |-> NoDiag]

\* the rest of a parsing method, run unless the call before it raised
Parsed(r, K(_)) == IF r.tag # "ok" THEN r ELSE K(r)

\* Parser.current_token
current_token(T, pos) == IF pos >= Len(T) THEN T[Len(T)] ELSE T[pos + 1]

\* Parser.match
match(T, pos, token_types) == current_token(T, pos).type \in token_types

\* Parser.skip_newlines
RECURSIVE skip_newlines(_, _)
skip_newlines(T, pos) ==
    IF current_token(T, pos).type = "NEWLINE" THEN skip_newlines(T, pos + 1) ELSE pos

\* Parser.expect; the node of the result is the token consumed
expect(T, pos, token_type) ==
    IF current_token(T, pos).type # token_type
    THEN PFail(ParserError("Expected " \o token_type \o ", got",
                           current_token(T, pos).type, current_token(T, pos)))
    ELSE POk(pos + 1, current_token(T, pos))

RECURSIVE parse_statement(_, _)
RECURSIVE parse_statements(_, _, _, _)
RECURSIVE parse_block(_, _)
RECURSIVE parse_expression(_, _)
RECURSIVE parse_parameters(_, _, _)
RECURSIVE parse_arguments(_, _, _)
RECURSIVE parse_elifs(_, _, _)
RECURSIVE or_loop(_, _, _)
RECURSIVE and_loop(_, _, _)
RECURSIVE comparison_loop(_, _, _, _)
RECURSIVE additive_loop(_, _, _, _)
RECURSIVE multiplicative_loop(_, _, _, _)
RECURSIVE postfix_loop(_, _)
RECURSIVE parse_not_expression(_, _)
RECURSIVE parse_power(_, _)
RECURSIVE parse_unary(_, _)
RECURSIVE parse_primary(_, _)

\* Parser.parse_type_annotation
parse_type_annotation(T, pos) ==
    IF match(T, pos, {"TYPE_INT", "TYPE_FLOAT", "TYPE_STRING", "TYPE_BOOL", "TYPE_VOID",
                      "TYPE_LIST", "TYPE_MAP", "IDENTIFIER"})
    THEN POk(pos + 1, current_token(T, pos).value)
    ELSE PFail(ParserError("Expected type annotation", "", current_token(T, pos)))

\* `if self.match(COLON): self.advance(); type_annotation = self.parse_type_annotation()`
optional_annotation(T, pos) ==
    IF match(T, pos, {"COLON"}) THEN parse_type_annotation(T, pos + 1) ELSE POk(pos, "None")

\* `if self.match(ASSIGN): self.advance(); value = self.parse_expression()`
optional_value(T, pos) ==
    IF match(T, pos, {"ASSIGN"}) THEN parse_expression(T, pos + 1) ELSE POk(pos, Absent)

\* Parser.parse_variable_declaration
parse_variable_declaration(T, pos, is_const) ==
    Parsed(expect(T, pos + 1, "IDENTIFIER"), LAMBDA name_token :
    Parsed(optional_annotation(T, name_token.pos), LAMBDA type_annotation :
    Parsed(optional_value(T, type_annotation.pos), LAMBDA value :
    POk(value.pos, VariableDeclaration(name_token.node.value, value.node, is_const)))))

\* the loop of Parser.parse_parameters
parse_parameters(T, pos, parameters) ==
    IF match(T, pos, {"RPAREN"}) THEN POk(pos, parameters)
    ELSE Parsed(expect(T, pos, "IDENTIFIER"), LAMBDA name_token :
         Parsed(optional_annotation(T, name_token.pos), LAMBDA type_annotation :
         Parsed(optional_value(T, type_annotation.pos), LAMBDA default_value :
         IF match(T, default_value.pos, {"COMMA"})
         THEN parse_parameters(T, default_value.pos + 1,
                  Append(parameters, Parameter(name_token.node.value, default_value.node)))
         ELSE POk(default_value.pos,
                  Append(parameters, Parameter(name_token.node.value, default_value.node))))))

\* `if self.match(ARROW): self.advance(); return_type = self.parse_type_annotation()`
optional_return_type(T, pos) ==
    IF match(T, pos, {"ARROW"}) THEN parse_type_annotation(T, pos + 1) ELSE POk(pos, "None")

\* Parser.parse_function_declaration(is_async=False)
parse_function_declaration(T, pos) ==
    Parsed(expect(T, pos, "FN"), LAMBDA fn :
    Parsed(expect(T, fn.pos, "IDENTIFIER"), LAMBDA name_token :
    Parsed(expect(T, name_token.pos, "LPAREN"), LAMBDA lparen :
    Parsed(parse_parameters(T, lparen.pos, <<>>), LAMBDA parameters :
    Parsed(expect(T, parameters.pos, "RPAREN"), LAMBDA rparen :
    Parsed(optional_return_type(T, rparen.pos), LAMBDA return_type :
    Parsed(parse_block(T, return_type.pos), LAMBDA body :
    POk(body.pos, FunctionDeclaration(name_token.node.value, parameters.node, body.node)))))))))

\* the statement loops of Parser.parse and Parser.parse_block: statements are
\* parsed until a token of stops is the current one
parse_statements(T, pos, statements, stops) ==
    IF match(T, pos, stops) THEN POk(pos, statements)
    ELSE Parsed(parse_statement(T, pos), LAMBDA stmt :
         parse_statements(T, skip_newlines(T, stmt.pos), Append(statements, stmt.node), stops))

\* Parser.parse_block
parse_block(T, pos) ==
    Parsed(expect(T, skip_newlines(T, pos), "LBRACE"), LAMBDA lbrace :
    Parsed(parse_statements(T, skip_newlines(T, lbrace.pos), <<>>, {"RBRACE", "EOF"}),
           LAMBDA statements :
    Parsed(expect(T, statements.pos, "RBRACE"), LAMBDA rbrace :
    POk(rbrace.pos, Block(statements.node)))))

\* the elif loop of Parser.parse_if_statement
parse_elifs(T, pos, elif_branches) ==
    IF match(T, pos, {"ELIF"})
    THEN Parsed(parse_expression(T, pos + 1), LAMBDA elif_cond :
         Parsed(parse_block(T, elif_cond.pos), LAMBDA elif_body :
         parse_elifs(T, skip_newlines(T, elif_body.pos),
                     Append(elif_branches, <<elif_cond.node, elif_body.node>>))))
    ELSE POk(pos, elif_branches)

\* `if self.match(ELSE): self.advance(); else_branch = self.parse_block()`
optional_else(T, pos) ==
    IF match(T, pos, {"ELSE"}) THEN parse_block(T, pos + 1) ELSE POk(pos, Absent)

\* Parser.parse_if_statement
parse_if_statement(T, pos) ==
    Parsed(expect(T, pos, "IF"), LAMBDA if_token :
    Parsed(parse_expression(T, if_token.pos), LAMBDA condition :
    Parsed(parse_block(T, condition.pos), LAMBDA then_branch :
    Parsed(parse_elifs(T, skip_newlines(T, then_branch.pos), <<>>), LAMBDA elif_branches :
    Parsed(optional_else(T, elif_branches.pos), LAMBDA else_branch :
    POk(else_branch.pos, IfStatement(condition.node, then_branch.node,
                                     elif_branches.node, else_branch.node)))))))

\* Parser.parse_while_statement
parse_while_statement(T, pos) ==
    Parsed(expect(T, pos, "WHILE"), LAMBDA while_token :
    Parsed(parse_expression(T, while_token.pos), LAMBDA condition :
    Parsed(parse_block(T, condition.pos), LAMBDA body :
    POk(body.pos, WhileStatement(condition.node, body.node)))))

\* Parser.parse_for_statement
parse_for_statement(T, pos) ==
    Parsed(expect(T, pos, "FOR"), LAMBDA for_token :
    Parsed(expect(T, for_token.pos, "IDENTIFIER"), LAMBDA var_token :
    Parsed(expect(T, var_token.pos, "IN"), LAMBDA in_token :
    Parsed(parse_expression(T, in_token.pos), LAMBDA iterable :
    Parsed(parse_block(T, iterable.pos), LAMBDA body :
    POk(body.pos, ForStatement(var_token.node.value, iterable.node, body.node)))))))

\* Parser.parse_return_statement
parse_return_statement(T, pos) ==
    IF match(T, pos + 1, {"NEWLINE", "RBRACE", "EOF"}) THEN POk(pos + 1, ReturnStatement(Absent))
    ELSE Parsed(parse_expression(T, pos + 1), LAMBDA value :
         POk(value.pos, ReturnStatement(value.node)))

\* the field loop of Parser.parse_event_declaration
RECURSIVE parse_event_fields(_, _, _)
parse_event_fields(T, pos, fields) ==
    IF match(T, pos, {"RPAREN"}) THEN POk(pos, fields)
    ELSE Parsed(expect(T, pos, "IDENTIFIER"), LAMBDA field_name :
         Parsed(expect(T, field_name.pos, "COLON"), LAMBDA colon :
         Parsed(parse_type_annotation(T, colon.pos), LAMBDA field_type :
         IF match(T, field_type.pos, {"COMMA"})
         THEN parse_event_fields(T, field_type.pos + 1,
                  Append(fields, <<field_name.node.value, field_type.node>>))
         ELSE POk(field_type.pos, Append(fields, <<field_name.node.value, field_type.node>>)))))

\* Parser.parse_event_declaration
parse_event_declaration(T, pos) ==
    Parsed(expect(T, pos, "EVENT"), LAMBDA event_token :
    Parsed(expect(T, event_token.pos, "IDENTIFIER"), LAMBDA name_token :
    Parsed(expect(T, name_token.pos, "LPAREN"), LAMBDA lparen :
    Parsed(parse_event_fields(T, lparen.pos, <<>>), LAMBDA fields :
    Parsed(expect(T, fields.pos, "RPAREN"), LAMBDA rparen :
    POk(rparen.pos, EventDeclaration(name_token.node.value, fields.node)))))))

\* `self.skip_newlines(); if self.match(COMMA): self.advance(); self.skip_newlines()`
after_member(T, pos) ==
    LET comma(at) == IF match(T, at, {"COMMA"}) THEN at + 1 ELSE at
    IN  skip_newlines(T, comma(skip_newlines(T, pos)))

\* the loop of Parser.parse_struct_declaration: left at `}`, at EOF, or by the
\* break at `fn`
RECURSIVE parse_struct_fields(_, _, _)
parse_struct_fields(T, pos, fields) ==
    IF match(T, pos, {"RBRACE", "EOF"}) THEN POk(pos, fields)
    ELSE IF match(T, pos, {"FN"}) THEN POk(pos, fields)
    ELSE Parsed(expect(T, pos, "IDENTIFIER"), LAMBDA field_name :
         Parsed(expect(T, field_name.pos, "COLON"), LAMBDA colon :
         Parsed(parse_type_annotation(T, colon.pos), LAMBDA field_type :
         parse_struct_fields(T, after_member(T, field_type.pos),
                             Append(fields, <<field_name.node.value, field_type.node>>)))))

\* Parser.parse_struct_declaration
parse_struct_declaration(T, pos) ==
    Parsed(expect(T, pos, "STRUCT"), LAMBDA struct_token :
    Parsed(expect(T, struct_token.pos, "IDENTIFIER"), LAMBDA name_token :
    Parsed(expect(T, skip_newlines(T, name_token.pos), "LBRACE"), LAMBDA lbrace :
    Parsed(parse_struct_fields(T, skip_newlines(T, lbrace.pos), <<>>), LAMBDA fields :
    Parsed(expect(T, fields.pos, "RBRACE"), LAMBDA rbrace :
    POk(rbrace.pos, StructDeclaration(name_token.node.value, fields.node)))))))

\* the loop of Parser.parse_enum_declaration
RECURSIVE parse_enum_variants(_, _, _)
parse_enum_variants(T, pos, variants) ==
    IF match(T, pos, {"RBRACE", "EOF"}) THEN POk(pos, variants)
    ELSE Parsed(expect(T, pos, "IDENTIFIER"), LAMBDA variant :
         parse_enum_variants(T, after_member(T, variant.pos),
                             Append(variants, variant.node.value)))

\* Parser.parse_enum_declaration
parse_enum_declaration(T, pos) ==
    Parsed(expect(T, pos, "ENUM"), LAMBDA enum_token :
    Parsed(expect(T, enum_token.pos, "IDENTIFIER"), LAMBDA name_token :
    Parsed(expect(T, skip_newlines(T, name_token.pos), "LBRACE"), LAMBDA lbrace :
    Parsed(parse_enum_variants(T, skip_newlines(T, lbrace.pos), <<>>), LAMBDA variants :
    Parsed(expect(T, variants.pos, "RBRACE"), LAMBDA rbrace :
    POk(rbrace.pos, EnumDeclaration(name_token.node.value, variants.node)))))))

\* one turn of the loop of Parser.parse_impl_block: the position and the
\* methods after it
impl_turn(T, pos, methods) ==
    CASE match(T, pos, {"FN"}) ->
             Parsed(parse_function_declaration(T, pos), LAMBDA method :
             POk(skip_newlines(T, method.pos), Append(methods, method.node)))
      [] match(T, pos, {"ASYNC"}) -> PUnmodelled
      [] OTHER -> POk(skip_newlines(T, pos), methods)

\* the loop of Parser.parse_impl_block.  Its condition and its body read
\* nothing but the position and write nothing but the position and the
\* methods, so a turn that leaves both as they were is repeated for ever.
RECURSIVE parse_impl_methods(_, _, _)
parse_impl_methods(T, pos, methods) ==
    IF match(T, pos, {"RBRACE", "EOF"}) THEN POk(pos, methods)
    ELSE Parsed(impl_turn(T, pos, methods), LAMBDA turn :
         IF turn.pos = pos /\ turn.node = methods THEN PLoops(pos)
         ELSE parse_impl_methods(T, turn.pos, turn.node))

\* Parser.parse_impl_block
parse_impl_block(T, pos) ==
    Parsed(expect(T, pos, "IMPL"), LAMBDA impl_token :
    Parsed(expect(T, impl_token.pos, "IDENTIFIER"), LAMBDA type_name :
    Parsed(expect(T, skip_newlines(T, type_name.pos), "LBRACE"), LAMBDA lbrace :
    Parsed(parse_impl_methods(T, skip_newlines(T, lbrace.pos), <<>>), LAMBDA methods :
    Parsed(expect(T, methods.pos, "RBRACE"), LAMBDA rbrace :
    POk(rbrace.pos, ImplBlock(type_name.node.value, methods.node)))))))

\* the loop of Parser.parse_arguments
parse_arguments(T, pos, args) ==
    IF match(T, pos, {"RPAREN"}) THEN POk(pos, args)
    ELSE Parsed(parse_expression(T, pos), LAMBDA arg :
         IF match(T, arg.pos, {"COMMA"})
         THEN parse_arguments(T, arg.pos + 1, Append(args, arg.node))
         ELSE POk(arg.pos, Append(args, arg.node)))

\* Parser.parse_emit_statement
parse_emit_statement(T, pos) ==
    Parsed(expect(T, pos, "EMIT"), LAMBDA emit_token :
    Parsed(expect(T, emit_token.pos, "IDENTIFIER"), LAMBDA event_name :
    Parsed(expect(T, event_name.pos, "LPAREN"), LAMBDA lparen :
    Parsed(parse_arguments(T, lparen.pos, <<>>), LAMBDA arguments :
    Parsed(expect(T, arguments.pos, "RPAREN"), LAMBDA rparen :
    POk(rparen.pos, EmitStatement(event_name.node.value, arguments.node)))))))

AssignTokens == {"ASSIGN", "PLUS_ASSIGN", "MINUS_ASSIGN", "MULTIPLY_ASSIGN", "DIVIDE_ASSIGN"}

\* Parser.parse_expression_or_assignment
parse_expression_or_assignment(T, pos) ==
    Parsed(parse_expression(T, pos), LAMBDA expr :
    IF match(T, expr.pos, AssignTokens)
    THEN Parsed(parse_expression(T, expr.pos + 1), LAMBDA value :
         POk(value.pos, Assignment(expr.node, current_token(T, expr.pos).value, value.node)))
    ELSE POk(expr.pos, ExpressionStatement(expr.node)))

\* Parser.parse_statement
parse_statement(T, pos0) ==
    LET dispatch(pos, type) ==
            CASE type = "LET" -> parse_variable_declaration(T, pos, FALSE)
              [] type = "CONST" -> parse_variable_declaration(T, pos, TRUE)
              [] type = "FN" -> parse_function_declaration(T, pos)
              [] type = "IF" -> parse_if_statement(T, pos)
              [] type = "WHILE" -> parse_while_statement(T, pos)
              [] type = "FOR" -> parse_for_statement(T, pos)
              [] type = "RETURN" -> parse_return_statement(T, pos)
              [] type = "BREAK" -> POk(pos + 1, BreakStatement)
              [] type = "CONTINUE" -> POk(pos + 1, ContinueStatement)
              [] type \in {"ASYNC", "CONTRACT"} -> PUnmodelled
              [] type = "STRUCT" -> parse_struct_declaration(T, pos)
              [] type = "ENUM" -> parse_enum_declaration(T, pos)
              [] type = "IMPL" -> parse_impl_block(T, pos)
              [] type = "EMIT" -> parse_emit_statement(T, pos)
              [] type = "EVENT" -> parse_event_declaration(T, pos)
              [] OTHER -> parse_expression_or_assignment(T, pos)
        at(pos) == dispatch(pos, current_token(T, pos).type)
    IN  at(skip_newlines(T, pos0))

\* the loop of Parser.parse_list_literal
RECURSIVE parse_elements(_, _, _)
parse_elements(T, pos, elements) ==
    IF match(T, pos, {"RBRACKET"}) THEN POk(pos, elements)
    ELSE Parsed(parse_expression(T, pos), LAMBDA element :
         IF match(T, element.pos, {"COMMA"})
         THEN parse_elements(T, element.pos + 1, Append(elements, element.node))
         ELSE POk(element.pos, Append(elements, element.node)))

\* Parser.parse_list_literal
parse_list_literal(T, pos) ==
    Parsed(expect(T, pos, "LBRACKET"), LAMBDA lbracket :
    Parsed(parse_elements(T, lbracket.pos, <<>>), LAMBDA elements :
    Parsed(expect(T, elements.pos, "RBRACKET"), LAMBDA rbracket :
    POk(rbracket.pos, ListLiteral(elements.node)))))

\* the loop of Parser.parse_map_literal
RECURSIVE parse_pairs(_, _, _)
parse_pairs(T, pos, pairs) ==
    IF match(T, pos, {"RBRACE"}) THEN POk(pos, pairs)
    ELSE Parsed(parse_expression(T, pos), LAMBDA key :
         Parsed(expect(T, key.pos, "COLON"), LAMBDA colon :
         Parsed(parse_expression(T, colon.pos), LAMBDA value :
         parse_pairs(T, after_member(T, value.pos), Append(pairs, <<key.node, value.node>>)))))

\* Parser.parse_map_literal
parse_map_literal(T, pos) ==
    Parsed(expect(T, pos, "LBRACE"), LAMBDA lbrace :
    Parsed(parse_pairs(T, skip_newlines(T, lbrace.pos), <<>>), LAMBDA pairs :
    Parsed(expect(T, pairs.pos, "RBRACE"), LAMBDA rbrace :
    POk(rbrace.pos, MapLiteral(pairs.node)))))

\* the LPAREN branch of Parser.parse_primary
parse_parenthesized(T, pos) ==
    Parsed(parse_expression(T, pos + 1), LAMBDA expr :
    Parsed(expect(T, expr.pos, "RPAREN"), LAMBDA rparen :
    POk(rparen.pos, expr.node)))

\* Parser.parse_primary
parse_primary(T, pos) ==
    LET token == current_token(T, pos)
    IN  CASE token.type = "INTEGER" -> POk(pos + 1, IntegerLiteral(token.value))
          [] token.type = "FLOAT" -> PUnmodelled
          [] token.type = "STRING" -> POk(pos + 1, StringLiteral(token.value))
          [] token.type \in {"TRUE", "FALSE"} -> POk(pos + 1, BooleanLiteral(token.value))
          [] token.type = "NULL" -> POk(pos + 1, NullLiteral)
          [] token.type = "IDENTIFIER" -> POk(pos + 1, Identifier(token.value))
          [] token.type = "LPAREN" -> parse_parenthesized(T, pos)
          [] token.type = "LBRACKET" -> parse_list_literal(T, pos)
          [] token.type = "LBRACE" -> parse_map_literal(T, pos)
          [] OTHER -> PFail(ParserError("Unexpected token", token.type, token))

\* the call branch of the loop of Parser.parse_postfix
postfix_call(T, expr) ==
    Parsed(parse_arguments(T, expr.pos + 1, <<>>), LAMBDA args :
    Parsed(expect(T, args.pos, "RPAREN"), LAMBDA rparen :
    POk(rparen.pos, FunctionCall(expr.node, args.node))))

\* the member branch of the loop of Parser.parse_postfix
postfix_member(T, expr) ==
    Parsed(expect(T, expr.pos + 1, "IDENTIFIER"), LAMBDA member :
    IF match(T, member.pos, {"LPAREN"}) THEN PUnmodelled
    ELSE POk(member.pos, MemberAccess(expr.node, member.node.value)))

\* the index branch of the loop of Parser.parse_postfix
postfix_index(T, expr) ==
    Parsed(parse_expression(T, expr.pos + 1), LAMBDA index :
    Parsed(expect(T, index.pos, "RBRACKET"), LAMBDA rbracket :
    POk(rbracket.pos, IndexAccess(expr.node, index.node))))

\* the loop of Parser.parse_postfix, expr being the tree so far
postfix_loop(T, expr) ==
    CASE match(T, expr.pos, {"LPAREN"}) ->
             Parsed(postfix_call(T, expr), LAMBDA call : postfix_loop(T, call))
      [] match(T, expr.pos, {"DOT"}) ->
             Parsed(postfix_member(T, expr), LAMBDA access : postfix_loop(T, access))
      [] match(T, expr.pos, {"LBRACKET"}) ->
             Parsed(postfix_index(T, expr), LAMBDA access : postfix_loop(T, access))
      [] OTHER -> expr

\* Parser.parse_postfix
parse_postfix(T, pos) == Parsed(parse_primary(T, pos), LAMBDA expr : postfix_loop(T, expr))

\* Parser.parse_await
parse_await(T, pos) == IF match(T, pos, {"AWAIT"}) THEN PUnmodelled ELSE parse_postfix(T, pos)

\* Parser.parse_unary
parse_unary(T, pos) ==
    IF match(T, pos, {"MINUS", "BIT_NOT"})
    THEN Parsed(parse_unary(T, pos + 1), LAMBDA operand :
         POk(operand.pos, UnaryOp(current_token(T, pos).value, operand.node)))
    ELSE parse_await(T, pos)

\* a parse_power that folds a chain of ** from the left
RECURSIVE power_loop(_, _)
power_loop(T, left) ==
    IF match(T, left.pos, {"POWER"})
    THEN Parsed(parse_unary(T, left.pos + 1), LAMBDA right :
         power_loop(T, POk(right.pos, BinaryOp(left.node, current_token(T, left.pos).value,
                                               right.node))))
    ELSE left

parse_power_left(T, pos) == Parsed(parse_unary(T, pos), LAMBDA left : power_loop(T, left))

\* Parser.parse_power
parse_power(T, pos) ==
    Parsed(parse_unary(T, pos), LAMBDA left :
    IF match(T, left.pos, {"POWER"})
    THEN Parsed(parse_power(T, left.pos + 1), LAMBDA right :
         POk(right.pos, BinaryOp(left.node, current_token(T, left.pos).value, right.node)))
    ELSE left)

\* Parser.parse_multiplicative: the operand at pos is parsed and joined to
\* left, the tree of the operands before it (Absent: there is none), by op
multiplicative_loop(T, pos, left, op) ==
    Parsed(parse_power(T, pos), LAMBDA right :
    IF match(T, right.pos, {"MULTIPLY", "DIVIDE", "MODULO"})
    THEN multiplicative_loop(T, right.pos + 1,
             IF Present(left) THEN BinaryOp(left, op, right.node) ELSE right.node,
             current_token(T, right.pos).value)
    ELSE POk(right.pos, IF Present(left) THEN BinaryOp(left, op, right.node) ELSE right.node))

parse_multiplicative(T, pos) == multiplicative_loop(T, pos, Absent, "")

\* Parser.parse_additive, in the same way
additive_loop(T, pos, left, op) ==
    Parsed(parse_multiplicative(T, pos), LAMBDA right :
    IF match(T, right.pos, {"PLUS", "MINUS"})
    THEN additive_loop(T, right.pos + 1,
             IF Present(left) THEN BinaryOp(left, op, right.node) ELSE right.node,
             current_token(T, right.pos).value)
    ELSE POk(right.pos, IF Present(left) THEN BinaryOp(left, op, right.node) ELSE right.node))

parse_additive(T, pos) == additive_loop(T, pos, Absent, "")

\* Parser.parse_comparison, in the same way
comparison_loop(T, pos, left, op) ==
    Parsed(parse_additive(T, pos), LAMBDA right :
    IF match(T, right.pos, {"EQUAL", "NOT_EQUAL", "LESS", "GREATER", "LESS_EQUAL",
                            "GREATER_EQUAL"})
    THEN comparison_loop(T, right.pos + 1,
             IF Present(left) THEN ComparisonOp(left, op, right.node) ELSE right.node,
             current_token(T, right.pos).value)
    ELSE POk(right.pos,
             IF Present(left) THEN ComparisonOp(left, op, right.node) ELSE right.node))

parse_comparison(T, pos) == comparison_loop(T, pos, Absent, "")

\* Parser.parse_not_expression
parse_not_expression(T, pos) ==
    IF match(T, pos, {"NOT"})
    THEN Parsed(parse_not_expression(T, pos + 1), LAMBDA operand :
         POk(operand.pos, UnaryOp("not", operand.node)))
    ELSE parse_comparison(T, pos)

\* Parser.parse_and_expression, in the same way
and_loop(T, pos, left) ==
    Parsed(parse_not_expression(T, pos), LAMBDA right :
    IF match(T, right.pos, {"AND"})
    THEN and_loop(T, right.pos + 1,
             IF Present(left) THEN LogicalOp(left, "and", right.node) ELSE right.node)
    ELSE POk(right.pos, IF Present(left) THEN LogicalOp(left, "and", right.node)
                        ELSE right.node))

parse_and_expression(T, pos) == and_loop(T, pos, Absent)

\* Parser.parse_or_expression, in the same way
or_loop(T, pos, left) ==
    Parsed(parse_and_expression(T, pos), LAMBDA right :
    IF match(T, right.pos, {"OR"})
    THEN or_loop(T, right.pos + 1,
             IF Present(left) THEN LogicalOp(left, "or", right.node) ELSE right.node)
    ELSE POk(right.pos, IF Present(left) THEN LogicalOp(left, "or", right.node)
                        ELSE right.node))

parse_or_expression(T, pos) == or_loop(T, pos, Absent)

\* Parser.parse_expression
parse_expression(T, pos) == parse_or_expression(T, pos)

\* Parser(tokens).parse()
parse(T) ==
    Parsed(parse_statements(T, skip_newlines(T, 0), <<>>, {"EOF"}), LAMBDA statements :
    POk(statements.pos, Program(statements.node)))

----------------------------------------------------------------------------
(* The pipeline run_file (cli.py) and REPL.execute (repl.py) share:        *)
(* Lexer, Parser, then one of the two backends, inside one try statement.  *)

\* instructions one VirtualMachine.run is followed for
MaxSteps == 160
\* iterations + call depth a statement of a file may use
FileFuel == 12

\* Lexer(source).tokenize() then Parser(tokens).parse(): [tag, tokens, ast, e]
front(src) ==
    LET parsed(P, toks) ==
            IF P.tag = "ok" THEN [tag |-> "ok", tokens |-> toks, ast |-> P.node, e |-> NoDiag]
            ELSE [tag |-> P.tag, tokens |-> toks, ast |-> Absent, e |-> P.e]
        lexed(X) == IF X.tag = "ok" THEN parsed(parse(X.tokens), X.tokens)
                    ELSE [tag |-> X.tag, tokens |-> <<>>, ast |-> Absent, e |-> X.e]
    IN  lexed(tokenize(src))

\* the except clauses of run_file and REPL.execute: the heading printed for
\* an exception of class kind (CactRuntimeError is interpreter.RuntimeError)
Heading(kind) ==
    CASE kind = "LexerError" -> "Lexer Error"
      [] kind = "ParserError" -> "Parser Error"
      [] kind = "RuntimeError" -> "Runtime Error"
      [] OTHER -> "Error"

\* what is reported for the exception e a backend raised
Reported(e) == IF e = NoErr THEN NoDiag ELSE Diag(Heading(e.kind), e, 0, 0)

\* the status run_file's process ends with when only exceptions of the three
\* named classes end it with 1
ExitStatus_named_classes(e) ==
    IF e = NoErr THEN 0
    ELSE IF e.kind \in {"LexerError", "ParserError", "RuntimeError"} THEN 1
    ELSE 0

\* the status run_file's process ends with: each except clause calls
\* sys.exit(1), and run_file returns when no exception was raised
ExitStatus(e) ==
    IF e = NoErr THEN 0
    ELSE CASE e.kind = "LexerError" -> 1
           [] e.kind = "ParserError" -> 1
           [] e.kind = "RuntimeError" -> 1
           [] OTHER -> 1

\* one turn of the loop of VirtualMachine.run
vm_turn(instructions, consts, M) ==
    IF M.status # "running" THEN M
    ELSE IF M.pc >= Len(instructions) THEN [M EXCEPT !.status = "halted"]
    ELSE execute_instruction(instructions[M.pc + 1], [M EXCEPT !.pc = @ + 1], consts)

\* up to `steps` turns of the loop of VirtualMachine.run, taken half and half
RECURSIVE vm_loop(_, _, _, _)
vm_loop(instructions, consts, M, steps) ==
    IF M.status # "running" THEN M
    ELSE IF steps <= 1 THEN vm_turn(instructions, consts, M)
    ELSE vm_loop(instructions, consts,
                 vm_loop(instructions, consts, M, steps \div 2), steps - steps \div 2)

\* the machine when the loop was left: it ended, or it was still running
\* after MaxSteps turns
vm_left(instructions, M) ==
    IF M.status # "running" THEN M
    ELSE IF M.pc >= Len(instructions) THEN [M EXCEPT !.status = "halted"]
    ELSE [M EXCEPT !.status = "diverge"]

\* VirtualMachine.run(instructions, constants) on the machine [stack, globals]
vm_run(instructions, consts, st, gl) ==
    vm_left(instructions,
            vm_loop(instructions, consts,
                    [stack |-> st, frames |-> <<EmptyMap>>, globals |-> gl, pc |-> 0,
                     out |-> <<>>, status |-> "running", e |-> NoErr], MaxSteps))

\* `if result is not None: print(result)`
ResultLine(v) == IF v = None THEN <<>> ELSE <<[fn |-> "print", args |-> <<v>>]>>

\* the Interpreter branch of run_file on the tree prog, on a new Interpreter
run_file_interpreter(prog) ==
    LET finished(r) ==
            /\ r.tag \notin {"diverge", "unmodelled"}
            /\ envs' = Collect(r.s.envs)
            /\ current_env' = r.s.cur
            /\ events' = r.s.events
            /\ result' = (IF r.tag = "val" THEN r.v ELSE None)
            /\ out' = r.s.out \o (IF r.tag = "val" THEN ResultLine(r.v) ELSE <<>>)
            /\ failure' = Uncaught(r)
            /\ last' = prog
            /\ trace' = r.s.trace
            /\ diagnostic' = Reported(Uncaught(r))
            /\ exit_code' = ExitStatus(Uncaught(r))
            /\ UNCHANGED vvars
    IN  finished(run(prog, [envs |-> <<GlobalEnv>>, cur |-> 1, events |-> EmptyMap,
                            out |-> <<>>, trace |-> <<>>], FileFuel))

\* the VM branch of run_file on the tree prog, on a new VirtualMachine
run_file_vm(prog) ==
    LET finished(C, M) ==
            /\ M.status \in {"halted", "failed"}
            /\ program' = prog
            /\ code' = C.instructions
            /\ constants' = C.constants
            /\ stack' = M.stack
            /\ frames' = M.frames
            /\ globals' = M.globals
            /\ pc' = M.pc
            /\ vmstate' = M.status
            /\ vmfailure' = M.e
            /\ vmout' = M.out \o (IF M.status = "halted" THEN ResultLine(peek(M.stack)) ELSE <<>>)
            /\ nruns' = 1
            /\ diagnostic' = Reported(M.e)
            /\ exit_code' = ExitStatus(M.e)
            /\ UNCHANGED ivars
        compiled(C) ==
            /\ ~C.error
            /\ finished(C, vm_run(C.instructions, C.constants, <<>>,
                                  [n \in VMBuiltinNames |-> HostV(n)]))
    IN  compiled(compile(prog))

\* run_file(filepath, use_vm) on a file that exists and holds the text src;
\* main calls it once and the process ends
run_file(src, vm) ==
    LET parsed(F) ==
            /\ F.tag \notin {"unmodelled", "loops"}
            /\ session' = "ended"
            /\ source' = src
            /\ use_vm' = vm
            /\ tokens' = F.tokens
            /\ ast' = F.ast
            /\ IF F.tag = "err"
               THEN /\ diagnostic' = F.e
                    /\ exit_code' = ExitStatus(F.e.e)
                    /\ UNCHANGED <<ivars, vvars>>
               ELSE IF vm THEN run_file_vm(F.ast)
               ELSE run_file_interpreter(F.ast)
    IN  /\ session = "running"
        /\ Len(src) <= MaxSource
        /\ parsed(front(src))

----------------------------------------------------------------------------
(* Files handed to run_file *)

DigitChar(n) ==
    CASE n = 0 -> "0" [] n = 1 -> "1" [] n = 2 -> "2" [] n = 3 -> "3" [] n = 4 -> "4"
      [] n = 5 -> "5" [] n = 6 -> "6" [] n = 7 -> "7" [] n = 8 -> "8" [] n = 9 -> "9"

\* the decimal numeral of n >= 0
RECURSIVE Numeral(_)
Numeral(n) == IF n < 10 THEN <<DigitChar(n)>> ELSE Numeral(n \div 10) \o <<DigitChar(n % 10)>>

\* the spelling of the binary operators and of the assignment operators
Spelling ==
    [op \in {"+", "-", "*", "/", "%", "**", "==", "!=", "<", ">", "<=", ">=", "and", "or",
             "=", "+=", "-=", "*=", "/="} |->
        CASE op = "**" -> <<"*", "*">>
          [] op = "==" -> <<"=", "=">>
          [] op = "!=" -> <<"!", "=">>
          [] op = "<=" -> <<"<", "=">>
          [] op = ">=" -> <<">", "=">>
          [] op = "and" -> <<"a", "n", "d">>
          [] op = "or" -> <<"o", "r">>
          [] op = "+=" -> <<"+", "=">>
          [] op = "-=" -> <<"-", "=">>
          [] op = "*=" -> <<"*", "=">>
          [] op = "/=" -> <<"/", "=">>
          [] OTHER -> <<op>>]

Space == <<" ">>
Newline == <<"\n">>

\* `l op r`
Infix(l, op, r) == l \o Space \o Spelling[op] \o Space \o r


\* 1, f(), 1 + 2, true, [1], -x, 'a': a literal, a call, a binary operation, ...
BadTargets ==
    {<<"1">>, <<"f", "(", ")">>, <<"1", " ", "+", " ", "2">>, <<"t", "r", "u", "e">>,
     <<"[", "1", "]">>, <<"-", "x">>, <<"'", "a", "'">>}

\* `target op 2`
AssignSource(target, op) == Infix(target, op, <<"2">>)

\* let x = 0; let i = 0; while i < 10 { x += i; i += 1 }; println(x)
SemicolonScenario ==
    <<"l", "e", "t", " ", "x", " ", "=", " ", "0", ";", " ", "l", "e", "t", " ", "i", " ", "=",
      " ", "0", ";", " ", "w", "h", "i", "l", "e", " ", "i", " ", "<", " ", "1", "0", " ", "{",
      " ", "x", " ", "+", "=", " ", "i", ";", " ", "i", " ", "+", "=", " ", "1", " ", "}", ";",
      " ", "p", "r", "i", "n", "t", "l", "n", "(", "x", ")">>

\* the same statements, one to a line
LineScenario ==
    <<"l", "e", "t", " ", "x", " ", "=", " ", "0", "\n", "l", "e", "t", " ", "i", " ", "=",
      " ", "0", "\n", "w", "h", "i", "l", "e", " ", "i", " ", "<", " ", "1", "0", " ", "{",
      "\n", "x", " ", "+", "=", " ", "i", "\n", "i", " ", "+", "=", " ", "1", "\n", "}", "\n",
      "p", "r", "i", "n", "t", "l", "n", "(", "x", ")">>

Scenarios ==
    {SemicolonScenario, LineScenario,
     <<"l", "e", "t", " ", "x", " ", "=", " ", "0", ";", " ", "p", "r", "i", "n", "t", "l", "n", "(", "x", ")">>,
     <<"l", "e", "t", " ", "x", " ", "=", " ", "0", "\n", "p", "r", "i", "n", "t", "l", "n", "(", "x", ")">>,
     <<"p", "r", "i", "n", "t", "l", "n", "(", "1", ")", ";">>,
     <<"p", "r", "i", "n", "t", "l", "n", "(", "1", ")", " ", "/", "/", " ", "o", "n", "e", "\n">>,
     <<"/", "*", " ", "o", "n", "e", " ", "*", "/", " ", "p", "r", "i", "n", "t", "l", "n", "(", "1", ")">>}

BinaryOps == {"+", "-", "*", "/", "%", "**", "==", "!=", "<", ">", "<=", ">=", "and", "or"}
Operands == {<<1, 2, 3>>, <<2, 3, 2>>, <<10, 3, 2>>}

\* `a op1 b op2 c`
Chain(a, op1, b, op2, c) == Infix(Infix(Numeral(a), op1, Numeral(b)), op2, Numeral(c))
\* `not a op b`
NotChain(a, op, b) == <<"n", "o", "t", " ">> \o Infix(Numeral(a), op, Numeral(b))
\* not 0 == true
NotZeroIsTrue == <<"n", "o", "t", " ", "0", " ", "=", "=", " ", "t", "r", "u", "e">>

\* a / b, a % b, let q = a / b, let q = a % b
DivisionSource(a, op, b, bound_to) ==
    (IF bound_to THEN <<"l", "e", "t", " ", "q", " ", "=", " ">> ELSE <<>>) \o Infix(Numeral(a), op, Numeral(b))

\* a name that is not bound; a constant reassigned
UndefinedNameSource == <<"n", "o", "t", "h", "e", "r", "e">>
ConstReassignSource == <<"c", "o", "n", "s", "t", " ", "k", " ", "=", " ", "1", "\n", "k", " ", "=", " ", "2">>
\* a character no token starts with; a token no statement starts with
LexerFailureSource == <<"l", "e", "t", " ", "y", " ", "=", " ", "@">>
ParserFailureSource == <<"l", "e", "t", " ", "z", " ", "=", " ", ")">>

AssignmentFiles == {AssignSource(target, op) : target \in BadTargets \cup {<<"x">>},
                                                op \in AssignOps}
ExpressionFiles ==
    {Chain(n[1], op1, n[2], op2, n[3]) : n \in Operands, op1 \in BinaryOps, op2 \in BinaryOps}
    \cup {NotChain(n[1], op, n[2]) : n \in Operands, op \in BinaryOps}
    \cup {NotZeroIsTrue}
DivisionFiles ==
    {DivisionSource(a, op, b, bound_to) : a \in 0..2, b \in 0..2, op \in {"/", "%"},
                                          bound_to \in BOOLEAN}
FailingFiles == {UndefinedNameSource, ConstReassignSource, LexerFailureSource,
                 ParserFailureSource}

\* the binary bitwise operators and how they are spelled
BitwiseOps == {"&", "|", "^", "<<", ">>"}
BitwiseSpelling(op) ==
    CASE op = "<<" -> <<"<", "<">>
      [] op = ">>" -> <<">", ">">>
      [] OTHER -> <<op>>
\* let r = 2 <op> 1
BitwiseSource(op) ==
    <<"l", "e", "t", " ", "r", " ", "=", " ", "2", " ">> \o BitwiseSpelling(op) \o <<" ", "1">>
BitwiseFiles == {BitwiseSource(op) : op \in BitwiseOps}

Files == AssignmentFiles \cup Scenarios \cup ExpressionFiles \cup DivisionFiles
             \cup FailingFiles \cup BitwiseFiles

\* cactus <file> and cactus --vm <file>
RunFile ==
    /\ \E src \in Files : \E vm \in BOOLEAN : run_file(src, vm)
    /\ UNCHANGED <<multiline_buffer, brace_count, bound>>

CliNext == RunFile

CliSpec == Init /\ [][CliNext]_vars

\* C16: when an expression that is not an identifier, an index access or a
\* member access is followed by one of = += -= *= /=, parsing fails with a
\* parser failure positioned at the operator token, and no Assignment node
\* (no tree at all) is produced
C16_TargetsRestricted ==
    \A target \in BadTargets : \A op \in AssignOps :
        source = AssignSource(target, op) =>
            /\ ast = Absent
            /\ diagnostic.heading = "Parser Error"
            /\ diagnostic.line = 1
            /\ diagnostic.column = Len(target) + 2
            /\ exit_code = 1

\* C17: the scenario with `;` separators is lexed, parsed and run without
\* any diagnostic and prints 45
C17_SemicolonScenario ==
    source = SemicolonScenario =>
        /\ diagnostic = NoDiag
        /\ exit_code = 0
        /\ IF use_vm THEN vmout = <<Printed(IntV(45))>> ELSE out = <<Printed(IntV(45))>>

\* the same statements separated by newlines do run and print 45
LineScenarioPrints ==
    source = LineScenario =>
        /\ diagnostic = NoDiag
        /\ exit_code = 0
        /\ IF use_vm THEN vmout = <<Printed(IntV(45))>> ELSE out = <<Printed(IntV(45))>>

LineScenarioRan == source = LineScenario /\ ~use_vm /\ out = <<Printed(IntV(45))>>

Comparisons == {"==", "!=", "<", ">", "<=", ">="}

\* the binding strength of a binary operator, loosest first
Level(op) ==
    CASE op = "or" -> 1
      [] op = "and" -> 2
      [] op \in Comparisons -> 4
      [] op \in {"+", "-"} -> 5
      [] op \in {"*", "/", "%"} -> 6
      [] op = "**" -> 7

\* the node of `l op r`
Node(l, op, r) ==
    IF op \in {"and", "or"} THEN LogicalOp(l, op, r)
    ELSE IF op \in Comparisons THEN ComparisonOp(l, op, r)
    ELSE BinaryOp(l, op, r)

\* the tree of `a op1 b op2 c`: the tighter operator groups first; of two
\* operators of one level the left one does, except for **
Grouped(a, op1, b, op2, c) ==
    IF Level(op1) > Level(op2) \/ (Level(op1) = Level(op2) /\ op1 # "**")
    THEN Node(Node(IntegerLiteral(a), op1, IntegerLiteral(b)), op2, IntegerLiteral(c))
    ELSE Node(IntegerLiteral(a), op1, Node(IntegerLiteral(b), op2, IntegerLiteral(c)))

\* the tree of `not a op b`: not is looser than a comparison or an arithmetic
\* operator and tighter than and, or
NotGrouped(a, op, b) ==
    IF Level(op) > 3 THEN UnaryOp("not", Node(IntegerLiteral(a), op, IntegerLiteral(b)))
    ELSE Node(UnaryOp("not", IntegerLiteral(a)), op, IntegerLiteral(b))

\* C18: the tree the parser builds groups * / % tighter than + -, these
\* tighter than comparisons, these tighter than not, then and, then or; ** is
\* right-associative and tighter than * / %, every other binary level is
\* left-associative; 1 + 2 * 3 evaluates to 7, 2 ** 3 ** 2 to 512,
\* 10 - 3 - 2 to 5 and not 0 == true to true
C18_Precedence ==
    /\ \A n \in Operands : \A op1 \in BinaryOps : \A op2 \in BinaryOps :
           source = Chain(n[1], op1, n[2], op2, n[3]) =>
               ast = One(ExpressionStatement(Grouped(n[1], op1, n[2], op2, n[3])))
    /\ \A n \in Operands : \A op \in BinaryOps :
           source = NotChain(n[1], op, n[2]) =>
               ast = One(ExpressionStatement(NotGrouped(n[1], op, n[2])))
    /\ source = NotZeroIsTrue =>
           ast = One(ExpressionStatement(
                     UnaryOp("not", ComparisonOp(IntegerLiteral(0), "==",
                                                 BooleanLiteral(TRUE)))))
    /\ (source = Chain(1, "+", 2, "*", 3) /\ ~use_vm) => result = IntV(7)
    /\ (source = Chain(2, "**", 3, "**", 2) /\ ~use_vm) => result = IntV(512)
    /\ (source = Chain(10, "-", 3, "-", 2) /\ ~use_vm) => result = IntV(5)
    /\ (source = NotZeroIsTrue /\ ~use_vm) => result = BoolV(TRUE)

\* 2 ** 3 ** 2 was parsed as 2 ** (3 ** 2) and evaluated to 512
C18_Witness ==
    /\ source = Chain(2, "**", 3, "**", 2)
    /\ ast = One(ExpressionStatement(
                 BinaryOp(IntegerLiteral(2), "**",
                          BinaryOp(IntegerLiteral(3), "**", IntegerLiteral(2)))))
    /\ ~use_vm
    /\ result = IntV(512)
    /\ diagnostic = NoDiag

\* C19: a division or modulo by zero is reported, by both backends, as a
\* failure of the runtime kind (`Runtime Error`), the kind of an undefined
\* name or a const reassignment, and not as any other kind
C19_ZeroDivisionIsRuntime ==
    \A a \in 0..2 : \A op \in {"/", "%"} : \A bound_to \in BOOLEAN :
        source = DivisionSource(a, op, 0, bound_to) =>
            /\ diagnostic.heading = "Runtime Error"
            /\ exit_code = 1

\* the kinds the other failures are reported as
OtherKindsReported ==
    /\ (source = UndefinedNameSource /\ ~use_vm) => diagnostic.heading = "Runtime Error"
    /\ (source = ConstReassignSource /\ ~use_vm) => diagnostic.heading = "Runtime Error"
    /\ source = LexerFailureSource => diagnostic.heading = "Lexer Error"
    /\ source = ParserFailureSource => diagnostic.heading = "Parser Error"

\* lexing, parsing or the backend run_file chose raised an exception
Raised ==
    IF ast = Absent THEN diagnostic.e.kind \in {"LexerError", "ParserError"}
    ELSE IF use_vm THEN vmstate = "failed" /\ vmfailure # NoErr
    ELSE failure # NoErr

\* the backend run_file chose ran the program to its end
Completed ==
    /\ ast # Absent
    /\ IF use_vm THEN vmstate = "halted" /\ vmfailure = NoErr ELSE failure = NoErr

\* C22: run_file ends the process with status 1 whenever lexing, parsing or
\* execution on either backend raises a failure, and with status 0 when the
\* program runs to completion without one
C22_ExitStatus ==
    session = "ended" =>
        /\ Raised \/ Completed
        /\ Raised => exit_code = 1
        /\ Completed => exit_code = 0
        /\ source \in {LexerFailureSource, ParserFailureSource} => Raised
        /\ source = LineScenario => Completed

\* a failure of none of the three named classes ended the process with 1
C22_Witness ==
    /\ session = "ended"
    /\ ~use_vm
    /\ failure.kind = "ZeroDivisionError"
    /\ diagnostic.heading = "Error"
    /\ exit_code = 1

----------------------------------------------------------------------------
(* Lexer(source).tokenize() on texts it rejects *)

\* texts the lexer reads to their end, which end between two tokens
TokenPrefixes ==
    {<<>>,
     <<"x", " ">>,
     <<"x", "\n">>,
     <<"\n", "\n", " ", " ">>,
     <<"/", "*", " ", "c", "\n", " ", "*", "/", " ">>,
     <<"'", "a", "\n", "b", "'", " ">>,
     <<"/", "/", " ", "c", "\n">>,
     <<"l", "e", "t", " ", "s", " ", "=", "\t">>}

\* string literals whose closing quote is missing
OpenStrings ==
    {<<"\"", "a", "b", "c">>,
     <<"'", "a", "\n", "b">>,
     <<"\"", "a", "'">>,
     <<"\"">>,
     <<"\"", "a", "\n", "b", "\n">>,
     <<"\"", "a", "\\", "\"">>,
     <<"'", "\\">>}

\* what may follow them: text without a quote character
AfterOpenString ==
    {<<>>,
     <<" ", "y">>,
     <<"\n", " ", "z", " ", "=", " ", "1", "\n">>}

\* characters no token starts with
StrayCharacters ==
    {<<"@">>,
     <<"#">>,
     <<"$">>,
     <<"?">>,
     <<"!">>,
     <<"\\">>}

\* what may follow one of them
AfterStray ==
    {<<>>,
     <<" ", "y">>,
     <<"\n", "'", "q">>,
     <<"$">>}

\* texts the lexer accepts
WholeTexts ==
    {<<"'", "a", "\n", "b", "'">>,
     <<"\"", "a", "\\", "\"", "b", "\"", " ", "c">>,
     <<"x", " ", "!", "=", " ", "1">>,
     <<"a", " ", "&", " ", "b">>,
     <<"'", "'", " ", "\"", "'", "\"">>}

UnterminatedSources ==
    {p \o s \o t : p \in TokenPrefixes, s \in OpenStrings, t \in AfterOpenString}
StraySources ==
    {p \o c \o t : p \in TokenPrefixes, c \in StrayCharacters, t \in AfterStray}
AcceptedSources == {p \o w : p \in TokenPrefixes, w \in WholeTexts}
LexSources == UnterminatedSources \cup StraySources \cup AcceptedSources

\* `tokens = Lexer(source).tokenize()` on a new Lexer, the call alone; no list
\* is assigned when tokenize raises
Tokenize ==
    LET returned(src, X) ==
            /\ X.tag # "unmodelled"
            /\ source' = src
            /\ tokens' = (IF X.tag = "ok" THEN X.tokens ELSE <<>>)
            /\ diagnostic' = X.e
    IN  /\ source = <<>>
        /\ \E src \in LexSources : returned(src, tokenize(src))
        /\ UNCHANGED <<ivars, vvars, ast, exit_code, use_vm, multiline_buffer, brace_count,
                       session, bound>>

LexNext == Tokenize
LexSpec == Init /\ [][LexNext]_vars

\* the line and the column of the character at offset `at` of src, counted
\* from the text: lines end at "\n", both start at 1
LineOf(src, at) == 1 + Cardinality({i \in 1..at : src[i] = "\n"})
ColumnOf(src, at) ==
    1 + Cardinality({i \in 1..at : \A j \in i..at : src[j] # "\n"})

----------------------------------------------------------------------------
(* The operand stack around the code of a logical expression *)

\* the machine is about to execute the instruction that consumes the value of
\* the logical expression: `DEFINE x` of `let x = a op 2`, `BUILD_LIST 2` of
\* `[5, a op 2]`; the jump of compile_LogicalOp is patched to land here
AfterLogical ==
    /\ vmstate = "running"
    /\ pc < Len(code)
    /\ code[pc + 1].opcode \in {"DEFINE", "BUILD_LIST"}

\* C24: the code compiled for `a and b` / `a or b`, started on an operand stack
\* S, ends with S plus exactly one value whether or not the jump was taken, and
\* pops nothing of S: on the first run of a machine, whose stack starts empty,
\* `let x = a op 2` reaches DEFINE with one value on the stack, `[5, a op 2]`
\* reaches BUILD_LIST with 5 and one value above it, and neither run ends by
\* popping from an empty stack
C24_StackBalance ==
    /\ (nruns = 1 /\ program \in LogicalValuePrograms /\ AfterLogical) => Len(stack) = 1
    /\ (nruns = 1 /\ program \in LogicalElementPrograms /\ AfterLogical) =>
           Len(stack) = 2 /\ stack[1] = IntV(5)
    /\ (nruns = 1 /\ program \in LogicalValuePrograms \cup LogicalElementPrograms) =>
           vmfailure.kind # "IndexError"

\* the stack at BUILD_LIST when the stack balance holds
BalancedAtBuildList ==
    (nruns = 1 /\ program \in LogicalElementPrograms /\ AfterLogical) => Len(stack) = 2

\* the fall-through path of compile_LogicalOp reaches BUILD_LIST having popped 5
PoppedBelow ==
    /\ nruns = 1 /\ program \in LogicalElementPrograms /\ AfterLogical
    /\ stack = <<IntV(2)>>

----------------------------------------------------------------------------
(* The compiled for loop *)

\* println(v) once per element of the list a program of ForPrograms iterates
ElementsPrinted(prog) ==
    [i \in 1..Len(prog.statements[1].iterable.elements) |->
        Printed(IntV(prog.statements[1].iterable.elements[i].value))]

\* C25: the compiled `for v in xs` executes its body once per element of xs, in
\* order, and then continues after the loop, as the evaluator does: once both
\* backends are done with `for v in [1] { println(v) }` or
\* `for v in [1, 2] { println(v) }`, the machine has halted and each backend
\* has printed the elements in order
C25_ForLoopRuns ==
    (VMFinished /\ program \in ForPrograms) =>
        /\ failure = NoErr
        /\ out = ElementsPrinted(program)
        /\ vmstate = "halted"
        /\ vmout = ElementsPrinted(program)

\* the evaluator's half of C25
ForLoopRunsInterpreted ==
    (VMFinished /\ program \in ForPrograms) =>
        failure = NoErr /\ out = ElementsPrinted(program)

\* the machine fails on the loop test of a two-element list, before any body
ForLoopFailed ==
    /\ program \in ForPrograms /\ Len(program.statements[1].iterable.elements) = 2
    /\ vmstate = "failed" /\ vmfailure.kind = "TypeError" /\ vmout = <<>>
    /\ out = ElementsPrinted(program)

----------------------------------------------------------------------------
(* The compiled if statement *)

JumpOpcodes == {"JUMP", "JUMP_IF_FALSE", "JUMP_IF_TRUE"}

\* every jump of the instruction list leads to a later instruction
JumpsForward(instructions) ==
    \A i \in 1..Len(instructions) :
        instructions[i].opcode \in JumpOpcodes => instructions[i].operand >= i

\* C26: every jump compiled for an if statement is a forward jump, and after the
\* body of the then-branch or of an elif-branch control continues after the
\* whole statement, so that one body at most is executed: the code of
\* `let y = 0  let x = n  if x == 1 { y = 1 } elif x == 2 { y = 2 } else { y = 3 }`
\* has forward jumps only, and once both backends are done with it each has
\* bound y to n
C26_IfLowering ==
    \A n \in 1..3 :
        program = IfProgram(n) =>
            /\ JumpsForward(code)
            /\ VMFinished =>
                   /\ envs[1].variables["y"] = IntV(n)
                   /\ vmstate = "halted"
                   /\ frames[1]["y"] = IntV(n)

\* C26 without the elif-branch taken
IfLoweringNoElif ==
    \A n \in {1, 3} :
        program = IfProgram(n) =>
            /\ \A i \in 1..Len(code) :
                   (code[i].opcode \in JumpOpcodes /\ ~(code[i].opcode = "JUMP" /\ code[i].operand = 0))
                       => code[i].operand >= i
            /\ VMFinished =>
                   /\ envs[1].variables["y"] = IntV(n)
                   /\ vmstate = "halted"
                   /\ frames[1]["y"] = IntV(n)

\* the machine back at the first instruction after the body of the elif-branch
ElifBodyRepeats ==
    /\ program = IfProgram(2) /\ vmstate = "running" /\ pc = 0
    /\ "y" \in DOMAIN frames[1] /\ frames[1]["y"] = IntV(2)
    /\ envs[1].variables["y"] = IntV(2)

----------------------------------------------------------------------------
(* The compiled while loop: nests of two while loops with one break or     *)
(* continue, run by both backends on a new machine.                        *)

WhileNestParams == [outer : {"while"}, inner : {"while"}, sig : {"break", "continue"},
                    at : {0, 1}, deep : {FALSE}]
WhileOuterParams == [outer : {"while"}, inner : {"while"}, sig : {"break", "continue"}]

WhileNests ==
    {NestedProgram(p) : p \in WhileNestParams} \cup {OuterSignalProgram(p) : p \in WhileOuterParams}

SubmitWhile ==
    /\ vmstate = "idle"
    /\ \E prog \in WhileNests : InterpreterRun(prog) /\ VMStart(prog)
    /\ UNCHANGED fvars

WhileNext ==
    \/ SubmitWhile
    \/ StepStack
    \/ StepArithmetic
    \/ StepComparison
    \/ StepVariable
    \/ StepJump
    \/ StepCall
    \/ StepHalt

WhileSpec == Init /\ [][WhileNext]_vars

\* the instruction at address i of the code
At(i) == code[i + 1]
Addresses == 0..(Len(code) - 1)

\* the addresses where the condition test of a while loop of these programs
\* starts: `v < n` followed by the exit jump
Tests ==
    {s \in Addresses :
        /\ s + 3 < Len(code)
        /\ At(s).opcode = "LOAD" /\ At(s + 2).opcode = "LT"
        /\ At(s + 3).opcode = "JUMP_IF_FALSE"}
\* the target of the exit jump of the loop tested at s
ExitOf(s) == At(s + 3).operand

\* the jump that ends the then-branch of an `if v == n { }`
IfEnds ==
    {At(i).operand - 1 : i \in {j \in Addresses : j > 0 /\ At(j).opcode = "JUMP_IF_FALSE"
                                                  /\ At(j - 1).opcode = "EQ"}}
\* the jumps compiled for break and continue statements
Signals ==
    {k \in Addresses : /\ At(k).opcode = "JUMP"
                       /\ k \notin IfEnds
                       /\ k \notin {ExitOf(s) - 1 : s \in Tests}}
\* the test of the innermost loop whose code holds address k
Innermost(k) ==
    CHOOSE s \in Tests : /\ s < k /\ k < ExitOf(s)
                         /\ \A t \in Tests : (t < k /\ k < ExitOf(t)) => t <= s

\* the loops of the code are laid out as test, body, jump back to the test, and
\* the exit jump leads to the instruction after that jump
LoopsClosed ==
    /\ Cardinality(Tests) = 2
    /\ \A s \in Tests :
           /\ ExitOf(s) > s + 3 /\ ExitOf(s) < Len(code)
           /\ At(ExitOf(s) - 1).opcode = "JUMP" /\ At(ExitOf(s) - 1).operand = s

\* the one break or continue of the code leads to the end, respectively to the
\* test, of the loop on `v`, which is the innermost loop around it
SignalTargets(sig, v) ==
    /\ Cardinality(Signals) = 1
    /\ \A k \in Signals :
           /\ \E s \in Tests : s < k /\ k < ExitOf(s)
           /\ At(Innermost(k)).operand = v
           /\ At(k).operand = (IF sig = "break" THEN ExitOf(Innermost(k)) ELSE Innermost(k))

\* C27: the exit jump of a compiled while loop and every break in its body lead
\* to the first instruction after the loop, every continue leads to the loop's
\* condition test, a break or continue in a nest of while loops concerns the
\* innermost loop around it, and no jump is left with the target 0; run by the
\* machine, the code prints what the evaluator prints
C27_WhileLowering ==
    program \in WhileNests =>
        /\ \A i \in Addresses : At(i).opcode \in JumpOpcodes => At(i).operand # 0
        /\ LoopsClosed
        /\ \A p \in WhileNestParams : program = NestedProgram(p) => SignalTargets(p.sig, "j")
        /\ \A p \in WhileOuterParams : program = OuterSignalProgram(p) => SignalTargets(p.sig, "i")
        /\ vmstate # "failed"
        /\ IsPrefix(vmout, out)
        /\ vmstate = "halted" => vmout = out
        /\ \A p \in WhileNestParams : program = NestedProgram(p) => out = NestedPrints(p)
        /\ \A p \in WhileOuterParams : program = OuterSignalProgram(p) => out = OuterSignalPrints(p)

\* the machine has halted on the nest with a break in the inner loop, having
\* left the inner loop twice
C27_Witness ==
    /\ program = NestedProgram([outer |-> "while", inner |-> "while", sig |-> "break",
                                at |-> 1, deep |-> FALSE])
    /\ vmstate = "halted"
    /\ Len(vmout) = 8

----------------------------------------------------------------------------
(* Environment objects operated on directly: scopes are entered and left   *)
(* as execute_ForStatement does, and define and assign are called on the   *)
(* current scope.                                                          *)

\* scopes alive at once, the global one included
MaxScopes == 3

ScopeNames == {"x", "y"}

\* `self.current_env = Environment(previous_env)`
EnterScope ==
    /\ Len(envs) < MaxScopes
    /\ current_env = Len(envs)
    /\ envs' = Append(envs, Environment(current_env))
    /\ current_env' = Len(envs) + 1
    /\ UNCHANGED <<events, out, result, failure, last, trace, vvars, fvars>>

\* `self.current_env = previous_env`; the scope left is not referenced any more
LeaveScope ==
    /\ current_env = Len(envs)
    /\ envs[current_env].parent # 0
    /\ envs' = Front(envs)
    /\ current_env' = envs[current_env].parent
    /\ UNCHANGED <<events, out, result, failure, last, trace, vvars, fvars>>

\* `self.current_env.define(n, 1, is_const)`, what `let n = 1` / `const x = 1` calls
EnvDefine ==
    /\ \E n \in ScopeNames, is_const \in BOOLEAN :
           /\ is_const => n = "x"
           /\ envs' = define(envs, current_env, n, IntV(1), is_const)
           /\ last' = VariableDeclaration(n, Lit1, is_const)
    /\ failure' = NoErr
    /\ UNCHANGED <<current_env, events, out, result, trace, vvars, fvars>>

\* `self.current_env.assign(n, 2)`, what `n = 2` calls
EnvAssign ==
    LET assigned(n, r) ==
            /\ envs' = r.h
            /\ failure' = r.e
            /\ last' = Assignment(Identifier(n), "=", Lit2)
    IN  /\ \E n \in ScopeNames : assigned(n, assign(envs, current_env, n, IntV(2)))
        /\ UNCHANGED <<current_env, events, out, result, trace, vvars, fvars>>

EnvNext ==
    \/ EnterScope
    \/ LeaveScope
    \/ EnvDefine
    \/ EnvAssign

EnvSpec == Init /\ [][EnvNext]_vars

\* the scopes of the parent chain of scope c, c included
RECURSIVE ChainOf(_, _)
ChainOf(h, c) == IF c = 0 THEN {} ELSE {c} \cup ChainOf(h, h[c].parent)

\* the scopes of the chain of the current scope that bind name
Binders(name) == {a \in ChainOf(envs, current_env) : name \in DOMAIN envs[a].variables}
\* the one nearest to the current scope: every other binder is above it
Nearest(name) == CHOOSE b \in Binders(name) : Binders(name) \subseteq ChainOf(envs, b)

\* scope i is the same object before and after the step
Untouched(i) == envs'[i] = envs[i]

\* C28: define(n, v) writes n in the current scope and leaves every other scope
\* as it was, a binding of n in an ancestor included; assign(n, v) changes the
\* value of n in the nearest scope of the parent chain that binds n and nothing
\* else; an assign that fails, n being bound nowhere in the chain or constant
\* in that nearest scope, changes no scope
C28_OneScope ==
    [][current_env' = current_env =>
         /\ Len(envs') = Len(envs)
         /\ last'.k = "VariableDeclaration" =>
                /\ failure' = NoErr
                /\ \A i \in 1..Len(envs) : i # current_env => Untouched(i)
                /\ envs'[current_env].variables =
                       Put(envs[current_env].variables, last'.name, IntV(1))
                /\ envs'[current_env].parent = envs[current_env].parent
                /\ envs'[current_env].constants \ {last'.name} =
                       envs[current_env].constants \ {last'.name}
         /\ (last'.k = "Assignment" /\ failure' = NoErr) =>
                /\ Binders(last'.target.name) # {}
                /\ last'.target.name \notin envs[Nearest(last'.target.name)].constants
                /\ \A i \in 1..Len(envs) : i # Nearest(last'.target.name) => Untouched(i)
                /\ envs'[Nearest(last'.target.name)] =
                       [envs[Nearest(last'.target.name)]
                           EXCEPT !.variables = Put(@, last'.target.name, IntV(2))]
         /\ (last'.k = "Assignment" /\ failure' # NoErr) =>
                /\ envs' = envs
                /\ \/ Binders(last'.target.name) = {}
                   \/ last'.target.name \in envs[Nearest(last'.target.name)].constants]_vars

\* an assign from the innermost of three scopes has changed x in the middle
\* one, which shadows the global x
C28_Witness ==
    /\ Len(envs) = 3 /\ current_env = 3
    /\ last = Assignment(Identifier("x"), "=", Lit2) /\ failure = NoErr
    /\ "x" \notin DOMAIN envs[3].variables
    /\ "x" \in DOMAIN envs[2].variables /\ envs[2].variables["x"] = IntV(2)
    /\ "x" \in DOMAIN envs[1].variables /\ envs[1].variables["x"] = IntV(1)

----------------------------------------------------------------------------
(* Member access on a map *)

\* C29: `m.k` on a map is the value stored under "k" in both backends, and a
\* key the map does not hold is a runtime failure in both: once both backends
\* are done with `let m = {"k": 1}  let r = m.k` each has bound r to 1, and
\* once they are done with `let m = {"k": 1}  let r = m.z` each has failed
C29_MemberAccess ==
    /\ (VMFinished /\ program = MemberProgram("k")) =>
           /\ failure = NoErr /\ envs[1].variables["r"] = IntV(1)
           /\ vmstate = "halted" /\ frames[1]["r"] = IntV(1)
    /\ (VMFinished /\ program = MemberProgram("z")) =>
           /\ failure = Err("RuntimeError", "Key not found in map", "z")
           /\ vmstate = "failed"

\* C29 for the key the map holds
MemberPresent ==
    (VMFinished /\ program = MemberProgram("k")) =>
        /\ failure = NoErr /\ envs[1].variables["r"] = IntV(1)
        /\ vmstate = "halted" /\ frames[1]["r"] = IntV(1)

\* the machine has bound r to none where the evaluator failed
MissingMemberIsNone ==
    /\ program = MemberProgram("z") /\ vmstate = "halted"
    /\ "r" \in DOMAIN frames[1] /\ frames[1]["r"] = None
    /\ failure = Err("RuntimeError", "Key not found in map", "z")

----------------------------------------------------------------------------
(* Binary bitwise operators in a file *)

\* 2 <op> 1 on Python integers
BitwiseValue(op) ==
    CASE op = "&" -> 0
      [] op = "|" -> 3
      [] op = "^" -> 3
      [] op = "<<" -> 4
      [] op = ">>" -> 1

\* C30: `a & b`, `a | b`, `a ^ b`, `a << b` and `a >> b` on integers are parsed
\* as binary operations and evaluate to the bitwise result in both backends:
\* the run of the file `let r = 2 <op> 1` reports nothing, its tree is the
\* declaration of r with the binary operation as value, and r is bound to the
\* bitwise result
C30_BitwiseFromSource ==
    \A op \in BitwiseOps :
        source = BitwiseSource(op) =>
            /\ diagnostic = NoDiag
            /\ exit_code = 0
            /\ ast = One(VariableDeclaration("r", BinaryOp(Lit2, op, Lit1), FALSE))
            /\ IF use_vm THEN frames[1]["r"] = IntV(BitwiseValue(op))
               ELSE envs[1].variables["r"] = IntV(BitwiseValue(op))

\* the parser has rejected `let r = 2 & 1` at the operator
BitwiseRejected ==
    /\ source = BitwiseSource("&")
    /\ ast = Absent
    /\ diagnostic.heading = "Parser Error"
    /\ diagnostic.e.name = "BIT_AND"
    /\ diagnostic.line = 1 /\ diagnostic.column = 11
    /\ exit_code = 1

----------------------------------------------------------------------------
(* REPL (repl.py).  One turn of the loop of REPL.run reads a line with      *)
(* get_input and, when the line completes an input, hands the input to     *)
(* execute.  The display switches `tokens` and `ast` only change what is    *)
(* printed and are not kept.                                               *)

\* lines the continuation buffer is followed to
MaxBuffer == 3

Whitespace == {" ", "\t", "\r", "\n"}

\* str.strip
RECURSIVE lstrip(_)
lstrip(s) == IF s # <<>> /\ Head(s) \in Whitespace THEN lstrip(Tail(s)) ELSE s
RECURSIVE rstrip(_)
rstrip(s) ==
    IF s # <<>> /\ s[Len(s)] \in Whitespace THEN rstrip(SubSeq(s, 1, Len(s) - 1)) ELSE s
strip(s) == rstrip(lstrip(s))

\* str.lower
LowerOf(c) ==
    CASE c = "A" -> "a" [] c = "B" -> "b" [] c = "C" -> "c" [] c = "D" -> "d"
      [] c = "E" -> "e" [] c = "F" -> "f" [] c = "G" -> "g" [] c = "H" -> "h"
      [] c = "I" -> "i" [] c = "J" -> "j" [] c = "K" -> "k" [] c = "L" -> "l"
      [] c = "M" -> "m" [] c = "N" -> "n" [] c = "O" -> "o" [] c = "P" -> "p"
      [] c = "Q" -> "q" [] c = "R" -> "r" [] c = "S" -> "s" [] c = "T" -> "t"
      [] c = "U" -> "u" [] c = "V" -> "v" [] c = "W" -> "w" [] c = "X" -> "x"
      [] c = "Y" -> "y" [] c = "Z" -> "z" [] OTHER -> c
lower(s) == [i \in 1..Len(s) |-> LowerOf(s[i])]

\* str.count for a one-character argument
count(s, c) == Cardinality({i \in 1..Len(s) : s[i] = c})

\* '\n'.join(self.multiline_buffer)
RECURSIVE join_lines(_)
join_lines(buffer) ==
    IF Len(buffer) = 1 THEN buffer[1] ELSE buffer[1] \o <<"\n">> \o join_lines(Tail(buffer))

\* `stripped = line.strip().lower()`
stripped(line) == join(lower(strip(line)))

\* the words get_input treats as commands while the buffer is empty
Commands == {"exit", "quit", "help", "clear", "reset", "tokens", "ast", "vm", "interp"}

\* a count that only ever grows: closing braces are not subtracted
braces_after_opening_only(line) == brace_count + count(line, "{")

\* self.brace_count after `self.brace_count += line.count('{') - line.count('}')`
braces_after(line) == brace_count + count(line, "{") - count(line, "}")

\* `if result is not None: print(f"=> {result}")`
ReplResultLine(v) == IF v = None THEN <<>> ELSE <<[fn |-> "=>", args |-> <<v>>]>>

\* names the top-level statements of prog declare, each paired with the backend
Bindings(prog, vm) == {<<vm, n>> : n \in DeclaredNames(prog)}

\* the interpreter branch of REPL.execute: self.interpreter.run(ast)
execute_interpreter(prog) ==
    LET finished(r) ==
            /\ r.tag \notin {"diverge", "unmodelled"}
            /\ HeapBounded(Collect(r.s.envs))
            /\ envs' = Collect(r.s.envs)
            /\ current_env' = r.s.cur
            /\ events' = r.s.events
            /\ result' = (IF r.tag = "val" THEN r.v ELSE None)
            /\ out' = r.s.out \o (IF r.tag = "val" THEN ReplResultLine(r.v) ELSE <<>>)
            /\ failure' = Uncaught(r)
            /\ last' = prog
            /\ trace' = r.s.trace
            /\ diagnostic' = Reported(Uncaught(r))
            /\ bound' = (IF r.tag = "val" THEN bound \cup Bindings(prog, FALSE) ELSE bound)
            /\ UNCHANGED vvars
    IN  finished(run(prog, [envs |-> envs, cur |-> current_env, events |-> events,
                            out |-> <<>>, trace |-> <<>>], Fuel))

\* the VM branch of REPL.execute: self.vm.run(bytecode, compiler.constants)
execute_vm(prog) ==
    LET finished(C, M) ==
            /\ M.status \in {"halted", "failed"}
            /\ Len(M.stack) <= MaxStack
            /\ program' = prog
            /\ code' = C.instructions
            /\ constants' = C.constants
            /\ stack' = M.stack
            /\ frames' = M.frames
            /\ globals' = M.globals
            /\ pc' = M.pc
            /\ vmstate' = M.status
            /\ vmfailure' = M.e
            /\ vmout' = M.out \o (IF M.status = "halted" THEN ReplResultLine(peek(M.stack))
                                  ELSE <<>>)
            /\ nruns' = nruns + 1
            /\ diagnostic' = Reported(M.e)
            /\ bound' = (IF M.status = "halted" THEN bound \cup Bindings(prog, TRUE)
                         ELSE bound)
            /\ UNCHANGED ivars
        compiled(C) ==
            /\ ~C.error
            /\ finished(C, vm_run(C.instructions, C.constants, stack, globals))
    IN  /\ nruns < MaxRuns
        /\ compiled(compile(prog))

\* REPL.execute(source)
repl_execute(src) ==
    LET parsed(F) ==
            /\ F.tag \notin {"unmodelled", "loops"}
            /\ tokens' = F.tokens
            /\ ast' = F.ast
            /\ IF F.tag = "err"
               THEN /\ diagnostic' = F.e
                    /\ UNCHANGED <<ivars, vvars, bound>>
               ELSE IF use_vm THEN execute_vm(F.ast)
               ELSE execute_interpreter(F.ast)
    IN  /\ Len(src) <= MaxSource
        /\ source' = src
        /\ IF strip(src) = <<>>
           THEN /\ tokens' = <<>>
                /\ ast' = Absent
                /\ diagnostic' = NoDiag
                /\ UNCHANGED <<ivars, vvars, bound>>
           ELSE parsed(front(src))

\* `self.interpreter = Interpreter()`
reset_interpreter ==
    /\ envs' = <<GlobalEnv>> /\ current_env' = 1 /\ events' = EmptyMap /\ out' = <<>>
    /\ result' = None /\ failure' = NoErr /\ last' = Program(<<>>) /\ trace' = <<>>

\* a turn whose line get_input takes as a command
repl_command(line) ==
    /\ source' = line
    /\ tokens' = <<>>
    /\ ast' = Absent
    /\ diagnostic' = NoDiag
    /\ session' = (IF stripped(line) \in {"exit", "quit"} THEN "ended" ELSE session)
    /\ use_vm' = (CASE stripped(line) = "vm" -> TRUE
                    [] stripped(line) = "interp" -> FALSE
                    [] OTHER -> use_vm)
    /\ IF stripped(line) = "reset"
       THEN /\ reset_interpreter
            /\ bound' = {b \in bound : b[1]}
       ELSE UNCHANGED <<ivars, bound>>
    /\ UNCHANGED <<vvars, exit_code, multiline_buffer, brace_count>>

\* lines typed at the prompt
WordLines == {<<"v", "m">>, <<"i", "n", "t", "e", "r", "p">>, <<"r", "e", "s", "e", "t">>, <<"e", "x", "i", "t">>, <<" ", "V", "M">>}
LetX == <<"l", "e", "t", " ", "x", " ", "=", " ", "1">>
PrintX == <<"p", "r", "i", "n", "t", "l", "n", "(", "x", ")">>
StatementLines ==
    {LetX, PrintX, <<"l", "e", "t", " ", "y", " ", "=", " ", "@">>, <<"l", "e", "t", " ", "z", " ", "=", " ", ")">>, <<"n", "o", "t", "h", "e", "r", "e">>,
     <<"i", "f", " ", "x", " ", "=", "=", " ", "1", " ", "{">>, <<"}">>, <<>>}
Lines == WordLines \cup StatementLines

\* lines typed at the continuation prompt
ContinuationLines == {<<"v", "m">>, <<"}">>, <<"}", " ", "e", "l", "s", "e", " ", "{">>}

\* the lines the user may type at the current prompt
Typed == IF multiline_buffer = <<>> THEN Lines ELSE ContinuationLines

\* the line is a command: exit, quit, help, clear, reset, tokens, ast, vm, interp
ReadCommand ==
    /\ session = "running"
    /\ multiline_buffer = <<>>
    /\ \E line \in Typed :
           /\ stripped(line) \in Commands
           /\ repl_command(line)

\* the line leaves a brace open: it is kept and the prompt becomes `... `
ReadPartial ==
    /\ session = "running"
    /\ Len(multiline_buffer) + 1 < MaxBuffer
    /\ \E line \in Typed :
           /\ multiline_buffer # <<>> \/ stripped(line) \notin Commands
           /\ braces_after(line) > 0
           /\ multiline_buffer' = Append(multiline_buffer, line)
           /\ brace_count' = braces_after(line)
           /\ source' = line
    /\ tokens' = <<>>
    /\ ast' = Absent
    /\ diagnostic' = NoDiag
    /\ UNCHANGED <<ivars, vvars, exit_code, use_vm, session, bound>>

\* the line completes an input, which is executed
ReadComplete ==
    /\ session = "running"
    /\ \E line \in Typed :
           /\ multiline_buffer # <<>> \/ stripped(line) \notin Commands
           /\ braces_after(line) <= 0
           /\ repl_execute(join_lines(Append(multiline_buffer, line)))
    /\ multiline_buffer' = <<>>
    /\ brace_count' = 0
    /\ UNCHANGED <<exit_code, use_vm, session>>

ReplNext ==
    \/ ReadCommand
    \/ ReadPartial
    \/ ReadComplete

ReplSpec == Init /\ [][ReplNext]_vars

\* C20: a lexer, parser or runtime failure raised while executing an input
\* does not terminate the loop (only exit and quit do); after it the REPL is
\* at the top-level prompt with an empty continuation buffer and brace count
\* 0; and a name bound by an earlier input that raised nothing is visible to
\* a later input: println(x) after let x = 1 prints 1
C20_SurvivesDiagnostics ==
    /\ session = "ended" => stripped(source) \in {"exit", "quit"}
    /\ diagnostic # NoDiag =>
           /\ session = "running"
           /\ multiline_buffer = <<>>
           /\ brace_count = 0
    /\ (source = PrintX /\ ast # Absent /\ <<use_vm, "x">> \in bound) =>
           /\ diagnostic = NoDiag
           /\ IF use_vm THEN vmout = <<Printed(IntV(1))>> ELSE out = <<Printed(IntV(1))>>

\* the same, for the inputs executed by the tree-walking backend
SurvivesDiagnosticsInterpreted ==
    /\ session = "ended" => stripped(source) \in {"exit", "quit"}
    /\ diagnostic # NoDiag =>
           /\ session = "running"
           /\ multiline_buffer = <<>>
           /\ brace_count = 0
    /\ (source = PrintX /\ ast # Absent /\ ~use_vm /\ <<FALSE, "x">> \in bound) =>
           /\ diagnostic = NoDiag
           /\ out = <<Printed(IntV(1))>>

\* println(x) printed 1 in a later turn than let x = 1
BindingVisibleInterpreted ==
    /\ source = PrintX /\ ~use_vm /\ out = <<Printed(IntV(1))>>
    /\ <<FALSE, "x">> \in bound

\* the prompt get_input shows
prompt == IF multiline_buffer # <<>> THEN "... " ELSE ">>> "

\* the number of `{` minus the number of `}` over the lines of buffer
RECURSIVE NetBraces(_)
NetBraces(buffer) ==
    IF buffer = <<>> THEN 0
    ELSE count(Head(buffer), "{") - count(Head(buffer), "}") + NetBraces(Tail(buffer))

\* at the prompts of a state: `... ` exactly when the braces of the buffered
\* lines are open, and brace_count is that number
PromptFollowsBraces ==
    /\ prompt = "... " <=> NetBraces(multiline_buffer) > 0
    /\ prompt = ">>> " <=> NetBraces(multiline_buffer) <= 0
    /\ multiline_buffer # <<>> <=> brace_count > 0
    /\ brace_count = NetBraces(multiline_buffer)

\* a turn that reads a line which is not taken as a command: the line joins
\* the buffer when the braces stay open, and otherwise the buffered lines and
\* the line are executed as one source
LineBufferedOrSubmitted(line) ==
    IF NetBraces(Append(multiline_buffer, line)) > 0
    THEN /\ multiline_buffer' = Append(multiline_buffer, line)
         /\ UNCHANGED <<ivars, vvars>>
    ELSE /\ multiline_buffer' = <<>>
         /\ source' = join_lines(Append(multiline_buffer, line))
         /\ strip(source') # <<>> => ast' # Absent \/ diagnostic' # NoDiag

\* C21: at every prompt the REPL shows `... ` exactly when the number of `{`
\* minus the number of `}` over the buffered lines is positive and `>>> `
\* otherwise; the buffer is non-empty iff brace_count > 0; and the buffered
\* lines are submitted for execution as one source exactly when the count
\* returns to zero or below
C21_Continuation ==
    [][/\ PromptFollowsBraces
       /\ PromptFollowsBraces'
       /\ \/ multiline_buffer = <<>> /\ stripped(source') \in Commands
             /\ multiline_buffer' = <<>> /\ ast' = Absent
          \/ \E line \in Typed : LineBufferedOrSubmitted(line)]_vars

\* three buffered lines were executed as one source
C21_Witness ==
    /\ multiline_buffer = <<>>
    /\ Cardinality({i \in 1..Len(source) : source[i] = "\n"}) = 2
    /\ ast # Absent
    /\ diagnostic = NoDiag

----------------------------------------------------------------------------
(* The parser alone: Lexer(source).tokenize() then Parser(tokens).parse() on *)
(* declarations of structs, enums and impl blocks, on list and map literals  *)
(* written over one or several lines, and on programs cut off at every       *)
(* character.                                                                *)

\* what separates two members of a body or two elements of a literal
Separators == {<<",", " ">>, <<"\n">>}
\* the fields a struct of the family declares, in order
StructFields == <<<<"x", "int">>, <<"y", "int">>>>
FieldText(i) == <<StructFields[i][1]>> \o <<":", " ">> \o <<"i", "n", "t">>
MethodText == <<"f", "n", " ", "f", "(", ")", " ", "{", " ", "}">>

\* `struct P { <n fields> <method> }`, sep between two members
StructBody(n, sep, method) ==
    (IF n >= 1 THEN FieldText(1) ELSE <<>>)
    \o (IF n >= 2 THEN sep \o FieldText(2) ELSE <<>>)
    \o (IF method THEN (IF n >= 1 THEN (IF sep = <<"\n">> THEN sep ELSE Space) ELSE <<>>)
                       \o MethodText
        ELSE <<>>)
StructSource(n, sep, method) ==
    <<"s", "t", "r", "u", "c", "t", " ", "P", " ", "{", " ">> \o StructBody(n, sep, method) \o <<" ", "}">>
StructSources == {StructSource(n, sep, method) : n \in 0..2, sep \in Separators, method \in BOOLEAN}

\* where a line may be broken in a literal of two members
Breaks == {<<>>, <<"\n">>}
\* `[1, 2]` with a line break after `[`, after `,` and before `]` as chosen
ListSource(a, b, c) == <<"[">> \o a \o <<"1", ",">> \o b \o <<"2">> \o c \o <<"]">>
\* `{"k": 1, "j": 2}` in the same way
MapSource(a, b, c) ==
    <<"{">> \o a \o <<"\"", "k", "\"", ":", " ", "1", ",">> \o b \o <<"\"", "j", "\"", ":", " ", "2">> \o c \o <<"}">>
ListSources == {ListSource(a, b, c) : a \in Breaks, b \in Breaks, c \in Breaks}
MapSources == {MapSource(a, b, c) : a \in Breaks, b \in Breaks, c \in Breaks}

\* `impl X { <body> }`
ImplBodies ==
    {<<>>,
     <<"f", "n", " ", "f", "(", ")", " ", "{", " ", "}">>,
     <<"y">>,
     <<"1">>,
     <<"f", "n", " ", "f", "(", ")", " ", "{", " ", "}", " ", "y">>,
     <<"f", "n", " ", "f", "(", ")", " ", "{", " ", "}", "\n", "f", "n", " ", "g", "(", ")", " ", "{", " ", "}">>,
     <<"l", "e", "t", " ", "x", " ", "=", " ", "1">>}
ImplSource(body) == <<"i", "m", "p", "l", " ", "X", " ", "{", " ">> \o body \o <<" ", "}">>
ImplSources == {ImplSource(body) : body \in ImplBodies}

\* programs of every kind of parsing loop, and each of them cut off after
\* every character
WholePrograms ==
    {<<"s", "t", "r", "u", "c", "t", " ", "P", " ", "{", " ", "x", ":", " ", "i", "n", "t", ",", " ", "y", ":", " ", "i", "n", "t", " ", "}">>,
     <<"e", "n", "u", "m", " ", "E", " ", "{", " ", "A", ",", " ", "B", " ", "}">>,
     <<"i", "m", "p", "l", " ", "X", " ", "{", " ", "f", "n", " ", "f", "(", ")", " ", "{", " ", "}", " ", "}">>,
     <<"f", "n", " ", "f", "(", "a", ",", " ", "b", " ", "=", " ", "1", ")", " ", "{", " ", "r", "e", "t", "u", "r", "n", " ", "a", " ", "}">>,
     <<"f", "(", "1", ",", " ", "2", ")">>,
     <<"l", "e", "t", " ", "v", " ", "=", " ", "[", "1", ",", " ", "2", "]">>,
     <<"l", "e", "t", " ", "m", " ", "=", " ", "{", "\"", "k", "\"", ":", " ", "1", "}">>,
     <<"i", "f", " ", "x", " ", "{", " ", "y", " ", "=", " ", "1", " ", "}", " ", "e", "l", "s", "e", " ", "{", " ", "y", " ", "=", " ", "2", " ", "}">>,
     <<"w", "h", "i", "l", "e", " ", "x", " ", "{", " ", "b", "r", "e", "a", "k", " ", "}">>}
CutOff(text) == {SubSeq(text, 1, n) : n \in 1..Len(text)}
CutOffPrograms == UNION {CutOff(text) : text \in WholePrograms}

ParseSources == StructSources \cup ListSources \cup MapSources \cup ImplSources \cup CutOffPrograms

\* the lexer and the parser on one text, as run_file and REPL.execute call
\* them; when Parser.parse does not return, the tokens are there and neither
\* a tree nor a diagnostic ever is
ParseSource ==
    LET called(src, F) ==
            /\ F.tag # "unmodelled"
            /\ source' = src
            /\ tokens' = F.tokens
            /\ ast' = F.ast
            /\ diagnostic' = F.e
    IN  /\ source = <<>>
        /\ \E src \in ParseSources : called(src, front(src))
        /\ UNCHANGED <<ivars, vvars, exit_code, use_vm, multiline_buffer, brace_count,
                       session, bound>>

ParseNext == ParseSource

ParseSpec == Init /\ [][ParseNext]_vars

\* the first n fields of the family
FieldsBefore(n) == SubSeq(StructFields, 1, n)

\* C31: a struct declaration whose body has fields followed by `fn` methods
\* parses successfully: nothing is reported, the fields of the resulting
\* StructDeclaration are exactly the fields before the first `fn`, and the
\* parser has gone on to the closing brace (the declaration is the whole
\* program)
C31_StructWithMethods ==
    \A n \in 1..2 : \A sep \in Separators :
        source = StructSource(n, sep, TRUE) =>
            /\ diagnostic = NoDiag
            /\ ast # Absent
            /\ ast = One(StructDeclaration("P", FieldsBefore(n)))

\* a struct of fields alone parses to the declaration of these fields
StructOfFieldsParsed ==
    \A n \in 0..2 : \A sep \in Separators :
        source = StructSource(n, sep, FALSE) =>
            diagnostic = NoDiag /\ ast = One(StructDeclaration("P", FieldsBefore(n)))

\* `struct P { x: int <newline> fn f() { } }` has been rejected at the `fn`
StructMethodRejected ==
    /\ source = StructSource(1, <<"\n">>, TRUE)
    /\ ast = Absent
    /\ diagnostic = ParserError("Expected RBRACE, got", "FN", Token("FN", "fn", 2, 1))

\* C32: line breaks after `[`, after a `,` and before `]` of a list literal
\* are skipped as they are inside a map literal: the list literal written
\* over several lines parses to the ListLiteral of the one-line form
C32_ListOverLines ==
    \A a \in Breaks : \A b \in Breaks : \A c \in Breaks :
        source = ListSource(a, b, c) =>
            /\ diagnostic = NoDiag
            /\ ast = One(ExpressionStatement(ListLiteral(<<Lit1, Lit2>>)))

\* the map literal written over several lines parses to the MapLiteral of
\* the one-line form
MapOverLines ==
    \A a \in Breaks : \A b \in Breaks : \A c \in Breaks :
        source = MapSource(a, b, c) =>
            /\ diagnostic = NoDiag
            /\ ast = One(ExpressionStatement(MapLiteral(
                        <<<<StringLiteral("k"), Lit1>>, <<StringLiteral("j"), Lit2>>>>)))

\* the list literal with a line break after `[` has been rejected at the
\* NEWLINE token
ListBreakRejected ==
    /\ source = ListSource(<<"\n">>, <<>>, <<>>)
    /\ ast = Absent
    /\ diagnostic = ParserError("Unexpected token", "NEWLINE", Token("NEWLINE", "\n", 1, 2))

\* Parser.parse has returned a Program, or raised one ParserError
ParseEnded ==
    \/ ast # Absent /\ ast.k = "Program" /\ diagnostic = NoDiag
    \/ ast = Absent /\ diagnostic.heading = "Parser Error"

\* C35: Parser.parse terminates on every finite token sequence ending in
\* EOF: once the lexer has handed over its tokens, the parser has returned a
\* Program or raised exactly one ParserError
C35_ParserTerminates == tokens # <<>> => ParseEnded

\* the same of every text in which no impl block is begun
TerminatesOutsideImpl ==
    (tokens # <<>> /\ \A i \in 1..Len(tokens) : tokens[i].type # "IMPL") => ParseEnded

\* the parser is in the loop of parse_impl_block of `impl X { y }`, at the
\* identifier y, which no turn of the loop consumes
ImplLoopSpins ==
    /\ source = ImplSource(<<"y">>)
    /\ tokens # <<>>
    /\ ast = Absent /\ diagnostic = NoDiag
    /\ impl_turn(tokens, 3, <<>>) = POk(3, <<>>)
    /\ ~match(tokens, 3, {"RBRACE", "EOF"})

----------------------------------------------------------------------------
(* == and != on values of distinct kinds, run by both backends on a new    *)
(* machine.                                                                *)

\* literals of the kinds bool, int, str, none, list and map
EqualityOperands ==
    {BooleanLiteral(TRUE), BooleanLiteral(FALSE), Lit0, Lit1, StringLiteral("1"),
     StringLiteral(""), NullLiteral, ListLiteral(<<>>), ListLiteral(<<Lit1>>), MapLiteral(<<>>)}

\* the kind of the value of the literal
KindOf(literal) ==
    CASE literal.k = "BooleanLiteral" -> "bool"
      [] literal.k = "IntegerLiteral" -> "int"
      [] literal.k = "StringLiteral" -> "str"
      [] literal.k = "NullLiteral" -> "none"
      [] literal.k = "ListLiteral" -> "list"
      [] literal.k = "MapLiteral" -> "map"

\* let e = a == b   and   let e = a != b
EqualityProgram(a, op, b) == One(VariableDeclaration("e", ComparisonOp(a, op, b), FALSE))

\* the programs whose operands are of distinct kinds
EqualityPrograms ==
    {EqualityProgram(pair[1], op, pair[2]) :
        pair \in {p \in EqualityOperands \X EqualityOperands : KindOf(p[1]) # KindOf(p[2])},
        op \in {"==", "!="}}

SubmitEquality ==
    /\ vmstate = "idle"
    /\ \E prog \in EqualityPrograms : InterpreterRun(prog) /\ VMStart(prog)
    /\ UNCHANGED fvars

EqualityNext ==
    \/ SubmitEquality
    \/ StepStack
    \/ StepComparison
    \/ StepVariable
    \/ StepCollection
    \/ StepHalt

EqualitySpec == Init /\ [][EqualityNext]_vars

\* the comparison the program binds e to
Compared == program.statements[1].value

\* both backends have bound e to the value v
BothBind(v) ==
    /\ "e" \in DOMAIN envs[1].variables /\ envs[1].variables["e"] = v
    /\ "e" \in DOMAIN frames[1] /\ frames[1]["e"] = v

\* C33: for every pair of values of distinct kinds `==` yields false and
\* `!=` yields true in both backends, and neither raises: once both backends
\* are done with `let e = a == b` or `let e = a != b`, neither has failed and
\* each has bound e to false for == and to true for !=
C33_EqualityAcrossKinds ==
    (VMFinished /\ program \in EqualityPrograms) =>
        /\ failure = NoErr
        /\ vmstate = "halted"
        /\ BothBind(BoolV(Compared.operator = "!="))

\* neither backend raises on such a comparison
EqualityNeverRaises ==
    (VMFinished /\ program \in EqualityPrograms) => failure = NoErr /\ vmstate = "halted"

\* the same as C33 of the pairs that are not a boolean and an integer
EqualityOutsideNumbers ==
    (/\ VMFinished /\ program \in EqualityPrograms
     /\ {KindOf(Compared.left), KindOf(Compared.right)} # {"bool", "int"}) =>
        BothBind(BoolV(Compared.operator = "!="))

\* both backends have bound e to true for `true == 1`
TrueEqualsOne ==
    /\ VMFinished
    /\ program = EqualityProgram(BooleanLiteral(TRUE), "==", Lit1)
    /\ failure = NoErr /\ vmstate = "halted"
    /\ BothBind(BoolV(TRUE))

----------------------------------------------------------------------------
(* The evaluator's current scope between top-level statements: statements  *)
(* that nest function calls, for loops and contract bodies, given one at a *)
(* time to the same Interpreter, as the REPL does.                         *)

\* what the innermost body does: it fails on an unbound name, raises one of
\* the three control-flow exceptions, or declares a variable
Cores ==
    {ExpressionStatement(Identifier("nothere")), BreakStatement, ContinueStatement,
     ReturnStatement(Lit1), VariableDeclaration("x", Lit1, FALSE)}

\* fn f() { core }
FnLeaf(core) == FunctionDeclaration("f", <<>>, Block(<<core>>))
\* for v in [1, 2] { stmt }
ForEach(stmt) == ForStatement("v", ListLiteral(<<Lit1, Lit2>>), Block(<<stmt>>))
\* contract C { stmt }
Contract(stmt) == ContractDeclaration("C", Block(<<stmt>>))
\* fn g() { for v in [1, 2] { f() } }
FnThroughLoop == FunctionDeclaration("g", <<>>, Block(<<ForEach(ExpressionStatement(Call0("f")))>>))

CallF == ExpressionStatement(Call0("f"))
CallG == ExpressionStatement(Call0("g"))

\* the statements that enter scopes: calls, loops and contracts around a call
\* or around a core
Nests ==
    {CallF, CallG, ForEach(CallG), Contract(CallG), Contract(ForEach(CallF)),
     ForEach(Contract(CallF)), Contract(ForEach(CallG))}
    \cup {Contract(core) : core \in Cores}
    \cup {ForEach(core) : core \in Cores}
    \cup {Contract(ForEach(core)) : core \in Cores}

\* `fn f() { core }` is the input
DeclareLeaf ==
    /\ \E core \in Cores : InterpreterRun(One(FnLeaf(core)))
    /\ UNCHANGED <<vvars, fvars>>

\* `fn g() { for v in [1, 2] { f() } }` is the input
DeclareThroughLoop ==
    /\ InterpreterRun(One(FnThroughLoop))
    /\ UNCHANGED <<vvars, fvars>>

\* one of the nesting statements is the input
ExecuteNest ==
    /\ \E stmt \in Nests : InterpreterRun(One(stmt))
    /\ UNCHANGED <<vvars, fvars>>

DisciplineNext ==
    \/ DeclareLeaf
    \/ DeclareThroughLoop
    \/ ExecuteNest

DisciplineSpec == Init /\ [][DisciplineNext]_vars

\* C34: whenever the execution of a top-level statement has finished,
\* normally or by a failure raised at any depth of nested function calls,
\* for loops and contract bodies, the evaluator's current environment is the
\* global environment again, the one without a parent that holds the
\* built-in functions
C34_EnvironmentDiscipline ==
    /\ current_env = 1
    /\ envs[current_env].parent = 0
    /\ "println" \in DOMAIN envs[current_env].variables

\* the calls of the function named name that the last statement made and
\* that ended as tag says
CallsEnded(name, tag) ==
    {i \in 1..Len(trace) : trace[i].ev = "Call" /\ trace[i].name = name /\ trace[i].tag = tag}

\* `contract C { for v in [1, 2] { g() } }` has failed on the unbound name in
\* f, called from the loop of g, called from the loop of the contract body,
\* and the current environment is the global one
C34_Witness ==
    /\ last = One(Contract(ForEach(CallG)))
    /\ failure = Err("RuntimeError", "Undefined variable", "nothere")
    /\ CallsEnded("f", "err") # {} /\ CallsEnded("g", "err") # {}
    /\ "C" \notin DOMAIN envs[1].variables
    /\ current_env = 1

----------------------------------------------------------------------------
(* break and continue executed in a function called from a loop body *)

\* fn f() { sig }   and   fn f() { for k in [0] { sig } }
FnSignal(sig, own_loop) ==
    FunctionDeclaration("f", <<>>,
        Block(IF own_loop THEN LoopOver("for", "k", 1, <<SignalStatement(sig)>>)
              ELSE <<SignalStatement(sig)>>))
\* fn g() { f() }
FnRelay == FunctionDeclaration("g", <<>>, Block(<<CallF>>))

CallerParams ==
    [kind : {"for", "while"}, sig : {"break", "continue"}, at : {0, 1}, relay : BOOLEAN,
     own_loop : BOOLEAN]

\* the declarations of f and g, then a loop of i over 0, 1 in the caller with
\* the body `if i == at { f() }  println(i)` (g() for f() when relay), then
\* println(none)
CallerLoopProgram(p) ==
    Program(<<FnSignal(p.sig, p.own_loop), FnRelay>>
            \o LoopOver(p.kind, "i", 2,
                        <<IfStatement(ComparisonOp(Identifier("i"), "==", Lit(p.at)),
                                      Block(<<IF p.relay THEN CallG ELSE CallF>>), <<>>, Absent),
                          SayName("i")>>)
            \o <<SayNone>>)

\* the signal is in no loop of the function's body
RunSignalInBody ==
    /\ \E p \in CallerParams : ~p.own_loop /\ InterpreterRun(CallerLoopProgram(p))
    /\ UNCHANGED <<vvars, fvars>>

\* the signal is in a loop of the function's body
RunSignalInOwnLoop ==
    /\ \E p \in CallerParams : p.own_loop /\ InterpreterRun(CallerLoopProgram(p))
    /\ UNCHANGED <<vvars, fvars>>

ConfineNext ==
    \/ RunSignalInBody
    \/ RunSignalInOwnLoop

ConfineSpec == Init /\ [][ConfineNext]_vars

\* what the program prints when the caller's loop runs both its iterations to
\* their end
EveryIteration == <<Printed(IntV(0)), Printed(IntV(1)), Printed(None)>>

\* C36: a break or continue executed in a function body, in no loop of that
\* body, never terminates or skips an iteration of a loop in the caller: the
\* run of a loop whose body calls such a function either ends with the
\* failure the signal is, or runs every iteration of the loop to its end
C36_CallsConfineLoopControl ==
    \A p \in CallerParams :
        (~p.own_loop /\ last = CallerLoopProgram(p)) =>
            \/ failure # NoErr
            \/ out = EveryIteration

\* a signal in a loop of the function's body leaves the caller's loop alone
OwnLoopConfined ==
    \A p \in CallerParams :
        (p.own_loop /\ last = CallerLoopProgram(p)) => failure = NoErr /\ out = EveryIteration

\* the break in f, called through g in the first iteration, has ended the
\* caller's while loop: the run returned and printed the last line only
CallerLoopBroken ==
    /\ last = CallerLoopProgram([kind |-> "while", sig |-> "break", at |-> 0, relay |-> TRUE,
                                 own_loop |-> FALSE])
    /\ failure = NoErr
    /\ out = <<Printed(None)>>

\* the continue in f has skipped the rest of the caller's second iteration
CallerIterationSkipped ==
    /\ last = CallerLoopProgram([kind |-> "for", sig |-> "continue", at |-> 1, relay |-> FALSE,
                                 own_loop |-> FALSE])
    /\ failure = NoErr
    /\ out = <<Printed(IntV(0)), Printed(None)>>


----------------------------------------------------------------------------
(* State carried from one REPL input to the next (repl.py 62-69, 148-188;  *)
(* interpreter.py 242-247; vm.py 503-517).                                 *)

\* the turn before this one executed `let x = 1` and raised nothing
LetXExecuted == source = LetX /\ ast # Absent /\ diagnostic = NoDiag

\* C37: REPL state carries over in either backend: x, defined by one
\* successfully executed input, is visible to the input that follows it, both
\* when the evaluator is selected and when the VM is selected: println(x)
\* typed right after let x = 1 raises nothing and prints 1
C37_StateCarriesOver ==
    [][(LetXExecuted /\ source' = PrintX /\ ast' # Absent) =>
           /\ diagnostic' = NoDiag
           /\ IF use_vm THEN vmout' = <<Printed(IntV(1))>> ELSE out' = <<Printed(IntV(1))>>]_vars

\* the same, when the tree-walking evaluator is selected
CarriesOverInterpreted ==
    [][(LetXExecuted /\ ~use_vm /\ source' = PrintX /\ ast' # Absent) =>
           /\ diagnostic' = NoDiag
           /\ out' = <<Printed(IntV(1))>>]_vars

\* the VM has run println(x) after an input that bound x and raised nothing:
\* the frame that held x is gone and the run has failed on the name
LostInVM ==
    /\ source = PrintX /\ use_vm /\ <<TRUE, "x">> \in bound
    /\ vmstate = "failed"
    /\ diagnostic = Reported(vmfailure)
    /\ diagnostic.heading = "Error"
    /\ vmfailure.name = "x"
    /\ "x" \notin DOMAIN frames[1]

----------------------------------------------------------------------------
(* The operand stack of a VirtualMachine that is run more than once, as    *)
(* the one REPL.__init__ creates is (vm.py 465-471, 503-517; repl.py       *)
(* 172-177).                                                               *)

\* `a + nothere`, `a + (b + nothere)` and `[a, nothere]`: the name is looked
\* up with the operands before it already pushed
MidExpression ==
    {BinaryOp(Lit(a), "+", Identifier("nothere")) : a \in 0..2}
    \cup {BinaryOp(Lit(a), "+", BinaryOp(Lit(b), "+", Identifier("nothere"))) : a \in 0..2, b \in 0..2}
    \cup {ListLiteral(<<Lit(a), Identifier("nothere")>>) : a \in 0..2}

\* programs of one expression statement whose run fails in the expression
FailingPrograms == {One(ExpressionStatement(e)) : e \in MidExpression}

\* `let x = a`, `a`, `println(a)`, `let x = nothere`, `1 / 0` and no statement
EndingPrograms ==
    {One(VariableDeclaration("x", Lit(a), FALSE)) : a \in 0..2}
    \cup {One(ExpressionStatement(Lit(a))) : a \in 0..2}
    \cup {One(ExpressionStatement(Say(Lit(a)))) : a \in 0..2}
    \cup {One(VariableDeclaration("x", Identifier("nothere"), FALSE)),
          One(ExpressionStatement(BinaryOp(Lit(1), "/", Lit(0)))),
          Program(<<>>)}

\* self.vm.run on a program whose expression fails part-way
RunFailing ==
    /\ \E prog \in FailingPrograms : execute_vm(prog)
    /\ UNCHANGED <<source, tokens, ast, exit_code, use_vm, multiline_buffer, brace_count,
                   session>>

\* self.vm.run on a program that ends in HALT or fails with nothing pushed
RunEnding ==
    /\ \E prog \in EndingPrograms : execute_vm(prog)
    /\ UNCHANGED <<source, tokens, ast, exit_code, use_vm, multiline_buffer, brace_count,
                   session>>

ResidueNext ==
    \/ RunFailing
    \/ RunEnding

ResidueSpec == Init /\ [][ResidueNext]_vars

\* what run returns on this machine: `return self.peek()`
Returned == peek(stack)

\* what run returns for the same instructions and constants on a machine
\* whose stack is empty
ReturnedAlone == peek(vm_run(code, constants, <<>>, globals).stack)

\* C38: no operand-stack residue between VM runs: on a machine that is run
\* again, the value run returns for a program is the one its instructions and
\* constants give on an empty stack; no value left by an earlier run that
\* failed in the middle of an expression is returned
C38_NoStackResidue == vmstate = "halted" => Returned = ReturnedAlone

\* the same for the first run of a machine
FirstRunReturnsOwn == (vmstate = "halted" /\ nruns = 1) => Returned = ReturnedAlone

\* `let x = 1`, run after `2 + nothere` failed, has returned the 2 that run
\* had pushed
ResidueReturned ==
    /\ nruns = 2 /\ vmstate = "halted"
    /\ program = One(VariableDeclaration("x", Lit(1), FALSE))
    /\ "x" \in DOMAIN frames[1] /\ frames[1]["x"] = IntV(1)
    /\ stack = <<IntV(2)>>
    /\ Returned = IntV(2)
    /\ vmout = ReplResultLine(IntV(2))
    /\ ReturnedAlone = None

\* a run that failed in the middle of an expression has left operands pushed
LeftOnStack == vmstate = "failed" /\ vmfailure.name = "nothere" /\ stack # <<>>
====
